---- MODULE Spec2Model ----
(***************************************************************************)
(* The four ledger contracts of the health-record system as one state      *)
(* machine: PatientRegistry, DoctorRegistry, RecordRegistry and            *)
(* AccessControl.  Every external function is one action.  The requires    *)
(* of a function are its ...Require operator, which yields "ok" or the     *)
(* message the transaction reverts with; a reverted transaction leaves     *)
(* the storage of every contract as it was, so it is no step.  The client  *)
(* handlers that upload to the content store and then call a contract are  *)
(* actions over the same state, extended by the content store.             *)
(***************************************************************************)
EXTENDS Integers, Sequences, FiniteSets, TLC

VARIABLES
    now,                      \* block.timestamp of the latest block
    patients,                 \* PatientRegistry.patients
    doctors,                  \* DoctorRegistry.doctors
    admin,                    \* DoctorRegistry.admin
    recordCounter,            \* RecordRegistry.recordCounter
    records,                  \* RecordRegistry.records
    patientRecords,           \* RecordRegistry.patientRecords
    accessCounter,            \* AccessControl.accessCounter
    accessGrants,             \* AccessControl.accessGrants
    recordDoctorAccess,       \* AccessControl.recordDoctorAccess
    doctorAccessibleRecords,  \* AccessControl.doctorAccessibleRecords
    patientPendingRequests,   \* AccessControl.patientPendingRequests
    receipt,                  \* status of the latest transaction: "ok" or "reverted"
    contentStore,             \* the artifacts uploaded to the content store (IPFS)
    subscribed,               \* whether an indexer listens to the contracts' events
    eventLog,                 \* the events the indexer has received, in order
    serverTime,               \* the authentication server's clock, in minutes
    nonceStore,               \* nonce/route.ts nonceStore: address -> nonce
    timers,                   \* the setTimeout callbacks that have not run yet
    issued,                   \* the nonces handed out: who asked, and when
    consumed                  \* the nonces a successful verification has used

patientVars == <<patients>>
doctorVars  == <<doctors, admin>>
recordVars  == <<recordCounter, records, patientRecords>>
accessVars  == <<accessCounter, accessGrants, recordDoctorAccess,
                 doctorAccessibleRecords, patientPendingRequests>>
ledger      == <<patientVars, doctorVars, recordVars, accessVars>>
authVars    == <<serverTime, nonceStore, timers, issued, consumed>>
vars        == <<now, ledger, receipt, contentStore, subscribed, eventLog, authVars>>

----------------------------------------------------------------------------
(* Bounds of the model *)

\* the clock advances at most this many days past deployment
MaxDays    == 2
\* the specifications of the access engine and of the record ledger stop
\* uploading after this many records
MaxRecords == 1
\* addRecord succeeds at most this many times
MaxUploads == 2
\* requestAccess succeeds at most this many times
MaxGrants  == 2
\* the indexer's log is followed up to this many events
MaxEvents  == 8
\* the authentication server hands out at most this many nonces
MaxNonces  == 3
\* the authentication server's clock advances at most this many minutes
MaxMinutes == 8

(* Program constants *)

DAY            == 86400
NonceLifetime  == 5
MaxDuration    == 365
MaxReason      == 200
MaxDescription == 100

----------------------------------------------------------------------------
(* Input domains *)

ZeroAddress == "0x0"
Deployer    == "adm"
Addr        == {"adm", "p", "d"}

RecordIds == 0 .. MaxUploads
AccessIds == 0 .. MaxGrants

Bytes(s)  == Len(s)                    \* bytes(s).length

\* a reason of MaxReason + 1 bytes and a description of MaxDescription + 1 bytes
LongReason ==
    "rrrrrrrrrrrrrrrrrrrrrrrrrrrrrrrrrrrrrrrrrrrrrrrrrrrrrrrrrrrrrrrrrrrrrrrrrrrrrrrrrrrrrrrrrrrrrrrrrrrrrrrrrrrrrrrrrrrrrrrrrrrrrrrrrrrrrrrrrrrrrrrrrrrrrrrrrrrrrrrrrrrrrrrrrrrrrrrrrrrrrrrrrrrrrrrrrrrrrrrrr"
LongDescription ==
    "ddddddddddddddddddddddddddddddddddddddddddddddddddddddddddddddddddddddddddddddddddddddddddddddddddddd"

ProfileCIDs  == {"", "QmProfile"}
NewProfiles  == {"", "QmProfile2"}
Licenses     == {"", "LIC-1"}
DataCIDs     == {"", "QmData"}
KeyCIDs      == {"", "QmKey"}
Reasons      == {"", "consult", LongReason}
Descriptions == {"Annual blood work", LongDescription}
Durations    == {0, 1, MaxDuration + 1}

----------------------------------------------------------------------------
(* Zero values of the storage mappings *)

NoPatient == [walletAddress |-> ZeroAddress, profileCID |-> "",
              isRegistered |-> FALSE, registeredAt |-> 0]

NoDoctor == [walletAddress |-> ZeroAddress, profileCID |-> "", licenseNumber |-> "",
             status |-> "Pending", isRegistered |-> FALSE,
             registeredAt |-> 0, verifiedAt |-> 0]

NoRecord == [recordId |-> 0, owner |-> ZeroAddress, dataCID |-> "",
             encryptedKeyCID |-> "", recordType |-> "General", recordHash |-> "",
             shortDescription |-> "", addedBy |-> ZeroAddress,
             createdAt |-> 0, isActive |-> FALSE]

\* the wallet addresses as clients send them, and the key they are stored under
AddressInputs == {"0xAB12", "0xab12", "0xCD34"}
toLowerCase(address) ==
    CASE address = "0xAB12" -> "0xab12"
      [] address = "0xCD34" -> "0xcd34"
      [] OTHER -> address
StoreKeys == {toLowerCase(a) : a \in AddressInputs}
NoNonce   == 0                     \* Map.get of an absent key: undefined

NoGrant == [recordId |-> 0, patient |-> ZeroAddress, doctor |-> ZeroAddress,
            encryptedKeyCID |-> "", grantedAt |-> 0, expiresAt |-> 0,
            status |-> "None", requestReason |-> ""]

Deployed ==
    /\ now = 1
    /\ patients = [a \in Addr |-> NoPatient]
    /\ doctors = [a \in Addr |-> NoDoctor]
    /\ admin = Deployer
    /\ recordCounter = 0
    /\ records = [r \in RecordIds |-> NoRecord]
    /\ patientRecords = [a \in Addr |-> <<>>]
    /\ accessCounter = 0
    /\ accessGrants = [i \in AccessIds |-> NoGrant]
    /\ recordDoctorAccess = [r \in RecordIds |-> [a \in Addr |-> 0]]
    /\ doctorAccessibleRecords = [a \in Addr |-> <<>>]
    /\ patientPendingRequests = [a \in Addr |-> <<>>]
    /\ receipt = "ok"
    /\ contentStore = {}
    /\ eventLog = <<>>
    /\ serverTime = 0
    /\ nonceStore = [a \in StoreKeys |-> NoNonce]
    /\ timers = {}
    /\ issued = <<>>
    /\ consumed = {}

(* The state after deployment; no indexer listens *)
Init == Deployed /\ subscribed = FALSE

(* The state after deployment, with an indexer listening from the start *)
InitSubscribed == Deployed /\ subscribed = TRUE

(* emit: the event reaches the indexer if one listens; a transaction does   *)
(* not reach the authentication server                                     *)
Emit(event) ==
    /\ subscribed' = subscribed
    /\ eventLog' = IF subscribed THEN Append(eventLog, event) ELSE eventLog
    /\ UNCHANGED authVars

NoEmit == UNCHANGED <<subscribed, eventLog, authVars>>

(* A new block is mined one day later. *)
Tick ==
    /\ now + DAY <= 1 + MaxDays * DAY
    /\ now' = now + DAY
    /\ UNCHANGED <<ledger, receipt, contentStore, subscribed, eventLog, authVars>>

(* mutant: the call reports the failure without rolling back a write it made *)
Reverted_partialRollback(msg) ==
    /\ msg # "ok"
    /\ receipt' = "reverted"
    /\ UNCHANGED contentStore
    /\ NoEmit
    /\ patientPendingRequests' = [a \in Addr |-> <<>>]
    /\ UNCHANGED <<now, patientVars, doctorVars, recordVars, accessCounter, accessGrants,
                   recordDoctorAccess, doctorAccessibleRecords>>

(* A transaction one of whose requires fails with msg: the call reverts, and   *)
(* every write and every event of the call is rolled back.                     *)
Reverted(msg) ==
    /\ msg # "ok"
    /\ receipt' = "reverted"
    /\ UNCHANGED contentStore
    /\ NoEmit
    /\ UNCHANGED <<now, ledger>>

----------------------------------------------------------------------------
(* PatientRegistry *)

isPatient(a) == patients[a].isRegistered

(* mutant: the duplicate-registration require is missing *)
registerPatientRequire_noDuplicateCheck(c, cid) ==
    IF ~(Bytes(cid) > 0) THEN "Profile CID cannot be empty"
    ELSE "ok"

registerPatientRequire(c, cid) ==
    IF patients[c].isRegistered THEN "Patient already registered"
    ELSE IF ~(Bytes(cid) > 0) THEN "Profile CID cannot be empty"
    ELSE "ok"

registerPatient(c, cid) ==
    /\ registerPatientRequire(c, cid) = "ok"
    /\ patients' = [patients EXCEPT ![c] =
           [walletAddress |-> c, profileCID |-> cid,
            isRegistered |-> TRUE, registeredAt |-> now]]
    /\ UNCHANGED <<now, doctorVars, recordVars, accessVars>>
    /\ receipt' = "ok"
    /\ Emit([name |-> "PatientRegistered", id |-> c])
    /\ UNCHANGED contentStore

patientUpdateProfileRequire(c, cid) ==
    IF ~patients[c].isRegistered THEN "Patient not registered"
    ELSE IF ~(Bytes(cid) > 0) THEN "Profile CID cannot be empty"
    ELSE "ok"

patientUpdateProfile(c, cid) ==
    /\ patientUpdateProfileRequire(c, cid) = "ok"
    /\ patients' = [patients EXCEPT ![c].profileCID = cid]
    /\ UNCHANGED <<now, doctorVars, recordVars, accessVars>>
    /\ receipt' = "ok"
    /\ Emit([name |-> "PatientProfileUpdated", id |-> c])
    /\ UNCHANGED contentStore

----------------------------------------------------------------------------
(* DoctorRegistry *)

isVerifiedDoctor(a) == doctors[a].isRegistered /\ doctors[a].status = "Verified"

registerDoctorRequire(c, cid, lic) ==
    IF doctors[c].isRegistered THEN "Doctor already registered"
    ELSE IF ~(Bytes(cid) > 0) THEN "Profile CID cannot be empty"
    ELSE IF ~(Bytes(lic) > 0) THEN "License number required"
    ELSE "ok"

registerDoctor(c, cid, lic) ==
    /\ registerDoctorRequire(c, cid, lic) = "ok"
    /\ doctors' = [doctors EXCEPT ![c] =
           [walletAddress |-> c, profileCID |-> cid, licenseNumber |-> lic,
            status |-> "Pending", isRegistered |-> TRUE,
            registeredAt |-> now, verifiedAt |-> 0]]
    /\ UNCHANGED <<now, admin, patientVars, recordVars, accessVars>>
    /\ receipt' = "ok"
    /\ Emit([name |-> "DoctorRegistered", id |-> c])
    /\ UNCHANGED contentStore

(* mutant: the require on the Pending status is missing *)
verifyDoctorRequire_fromAnyStatus(c, d) ==
    IF c # admin THEN "Only admin can perform this action"
    ELSE IF ~doctors[d].isRegistered THEN "Doctor not registered"
    ELSE "ok"

verifyDoctorRequire(c, d) ==
    IF c # admin THEN "Only admin can perform this action"
    ELSE IF ~doctors[d].isRegistered THEN "Doctor not registered"
    ELSE IF doctors[d].status # "Pending" THEN "Doctor not pending"
    ELSE "ok"

verifyDoctor(c, d) ==
    /\ verifyDoctorRequire(c, d) = "ok"
    /\ doctors' = [doctors EXCEPT ![d].status = "Verified", ![d].verifiedAt = now]
    /\ UNCHANGED <<now, admin, patientVars, recordVars, accessVars>>
    /\ receipt' = "ok"
    /\ Emit([name |-> "DoctorVerified", id |-> d])
    /\ UNCHANGED contentStore

rejectDoctorRequire(c, d) ==
    IF c # admin THEN "Only admin can perform this action"
    ELSE IF ~doctors[d].isRegistered THEN "Doctor not registered"
    ELSE "ok"

(* mutant: rejecting also clears the time of verification *)
rejectDoctor_clearsVerifiedAt(c, d) ==
    /\ rejectDoctorRequire(c, d) = "ok"
    /\ doctors' = [doctors EXCEPT ![d].status = "Rejected", ![d].verifiedAt = 0]
    /\ UNCHANGED <<now, admin, patientVars, recordVars, accessVars>>
    /\ receipt' = "ok"
    /\ Emit([name |-> "DoctorRejected", id |-> d])
    /\ UNCHANGED contentStore

rejectDoctor(c, d) ==
    /\ rejectDoctorRequire(c, d) = "ok"
    /\ doctors' = [doctors EXCEPT ![d].status = "Rejected"]
    /\ UNCHANGED <<now, admin, patientVars, recordVars, accessVars>>
    /\ receipt' = "ok"
    /\ Emit([name |-> "DoctorRejected", id |-> d])
    /\ UNCHANGED contentStore

suspendDoctorRequire(c, d) ==
    IF c # admin THEN "Only admin can perform this action"
    ELSE IF ~doctors[d].isRegistered THEN "Doctor not registered"
    ELSE "ok"

suspendDoctor(c, d) ==
    /\ suspendDoctorRequire(c, d) = "ok"
    /\ doctors' = [doctors EXCEPT ![d].status = "Suspended"]
    /\ UNCHANGED <<now, admin, patientVars, recordVars, accessVars>>
    /\ receipt' = "ok"
    /\ Emit([name |-> "DoctorSuspended", id |-> d])
    /\ UNCHANGED contentStore

doctorUpdateProfileRequire(c, cid) ==
    IF ~doctors[c].isRegistered THEN "Doctor not registered"
    ELSE IF ~(Bytes(cid) > 0) THEN "Profile CID cannot be empty"
    ELSE "ok"

doctorUpdateProfile(c, cid) ==
    /\ doctorUpdateProfileRequire(c, cid) = "ok"
    /\ doctors' = [doctors EXCEPT ![c].profileCID = cid]
    /\ UNCHANGED <<now, admin, patientVars, recordVars, accessVars>>
    /\ receipt' = "ok"
    /\ Emit([name |-> "DoctorProfileUpdated", id |-> c])
    /\ UNCHANGED contentStore

transferAdminRequire(c, a) ==
    IF c # admin THEN "Only admin can perform this action"
    ELSE IF a = ZeroAddress THEN "Invalid admin address"
    ELSE "ok"

transferAdmin(c, a) ==
    /\ transferAdminRequire(c, a) = "ok"
    /\ admin' = a
    /\ UNCHANGED <<now, doctors, patientVars, recordVars, accessVars>>
    /\ receipt' = "ok"
    /\ NoEmit
    /\ UNCHANGED contentStore

----------------------------------------------------------------------------
(* RecordRegistry *)

(* mutant: the owner is not checked against the patient registry *)
addRecordRequire_anyOwner(c, owner, dataCID, keyCID, desc) ==
    IF ~(Bytes(dataCID) > 0) THEN "Data CID required"
    ELSE IF ~(Bytes(keyCID) > 0) THEN "Encrypted key CID required"
    ELSE IF ~(Bytes(desc) <= MaxDescription) THEN "Description too long"
    ELSE IF ~(c = owner \/ isVerifiedDoctor(c))
         THEN "Unauthorized: only patient or verified doctor"
    ELSE "ok"

(* mutant: any registered doctor, verified or not, may add a record *)
addRecordRequire_anyDoctor(c, owner, dataCID, keyCID, desc) ==
    IF ~isPatient(owner) THEN "Owner must be registered patient"
    ELSE IF ~(Bytes(dataCID) > 0) THEN "Data CID required"
    ELSE IF ~(Bytes(keyCID) > 0) THEN "Encrypted key CID required"
    ELSE IF ~(Bytes(desc) <= MaxDescription) THEN "Description too long"
    ELSE IF ~(c = owner \/ doctors[c].isRegistered)
         THEN "Unauthorized: only patient or verified doctor"
    ELSE "ok"

addRecordRequire(c, owner, dataCID, keyCID, desc) ==
    IF ~isPatient(owner) THEN "Owner must be registered patient"
    ELSE IF ~(Bytes(dataCID) > 0) THEN "Data CID required"
    ELSE IF ~(Bytes(keyCID) > 0) THEN "Encrypted key CID required"
    ELSE IF ~(Bytes(desc) <= MaxDescription) THEN "Description too long"
    ELSE IF ~(c = owner \/ isVerifiedDoctor(c))
         THEN "Unauthorized: only patient or verified doctor"
    ELSE "ok"

(* mutant: the counter is advanced by two, leaving an identifier unused *)
addRecordTx_skipsId(c, owner, dataCID, keyCID, type, hash, desc) ==
    /\ addRecordRequire(c, owner, dataCID, keyCID, desc) = "ok"
    /\ recordCounter + 1 < MaxUploads
    /\ LET newRecordId == recordCounter + 2 IN
       /\ recordCounter' = newRecordId
       /\ records' = [records EXCEPT ![newRecordId] =
              [recordId |-> newRecordId, owner |-> owner, dataCID |-> dataCID,
               encryptedKeyCID |-> keyCID, recordType |-> type,
               recordHash |-> hash, shortDescription |-> desc,
               addedBy |-> c, createdAt |-> now, isActive |-> TRUE]]
       /\ patientRecords' = [patientRecords EXCEPT ![owner] = Append(@, newRecordId)]
    /\ UNCHANGED <<now, patientVars, doctorVars, accessVars>>
    /\ receipt' = "ok"
    /\ Emit([name |-> "RecordAdded", id |-> recordCounter + 2])

addRecordTx(c, owner, dataCID, keyCID, type, hash, desc) ==
    /\ addRecordRequire(c, owner, dataCID, keyCID, desc) = "ok"
    /\ recordCounter < MaxUploads
    /\ LET newRecordId == recordCounter + 1 IN
       /\ recordCounter' = newRecordId
       /\ records' = [records EXCEPT ![newRecordId] =
              [recordId |-> newRecordId, owner |-> owner, dataCID |-> dataCID,
               encryptedKeyCID |-> keyCID, recordType |-> type,
               recordHash |-> hash, shortDescription |-> desc,
               addedBy |-> c, createdAt |-> now, isActive |-> TRUE]]
       /\ patientRecords' = [patientRecords EXCEPT ![owner] = Append(@, newRecordId)]
    /\ UNCHANGED <<now, patientVars, doctorVars, accessVars>>
    /\ receipt' = "ok"
    /\ Emit([name |-> "RecordAdded", id |-> recordCounter + 1])

(* a call of addRecord that uploads nothing *)
addRecord(c, owner, dataCID, keyCID, type, hash, desc) ==
    /\ addRecordTx(c, owner, dataCID, keyCID, type, hash, desc)
    /\ UNCHANGED contentStore

(* mutant: the require on the active flag is missing *)
deactivateRecordRequire_noActiveCheck(c, r) ==
    IF records[r].owner # c THEN "Only owner can deactivate"
    ELSE "ok"

deactivateRecordRequire(c, r) ==
    IF records[r].owner # c THEN "Only owner can deactivate"
    ELSE IF ~records[r].isActive THEN "Record already inactive"
    ELSE "ok"

(* mutant: the row is deleted where the code clears the active flag *)
deactivateRecord_deletesRow(c, r) ==
    /\ deactivateRecordRequire(c, r) = "ok"
    /\ records' = [records EXCEPT ![r] = NoRecord]
    /\ UNCHANGED <<now, recordCounter, patientRecords, patientVars, doctorVars, accessVars>>
    /\ receipt' = "ok"
    /\ Emit([name |-> "RecordDeactivated", id |-> r])
    /\ UNCHANGED contentStore

deactivateRecord(c, r) ==
    /\ deactivateRecordRequire(c, r) = "ok"
    /\ records' = [records EXCEPT ![r].isActive = FALSE]
    /\ UNCHANGED <<now, recordCounter, patientRecords, patientVars, doctorVars, accessVars>>
    /\ receipt' = "ok"
    /\ Emit([name |-> "RecordDeactivated", id |-> r])
    /\ UNCHANGED contentStore

(* RecordRegistry.getPatientRecordIds / getActivePatientRecordIds *)
getPatientRecordIdsRequire(p) ==
    IF ~isPatient(p) THEN "Not a registered patient" ELSE "ok"

getPatientRecordIds(p) == patientRecords[p]

(* mutant: the index is returned without the filter on the active flag *)
getActivePatientRecordIds_unfiltered(p) ==
    LET allRecords == patientRecords[p] IN
    SelectSeq(allRecords, LAMBDA r : TRUE)

getActivePatientRecordIds(p) ==
    LET allRecords == patientRecords[p] IN
    SelectSeq(allRecords, LAMBDA r : records[r].isActive)

(* getRecord reverts for an id that was never assigned *)
getRecordRequire(r) ==
    IF records[r].recordId = 0 THEN "Record does not exist" ELSE "ok"

getTotalRecords == recordCounter

----------------------------------------------------------------------------
(* AccessControl *)

(* mutant: the expiry comparison is >= where the code has > *)
noActiveAccess_offByOne(r, d) ==
    LET existingAccessId == recordDoctorAccess[r][d] IN
    existingAccessId # 0 =>
        \/ accessGrants[existingAccessId].status # "Granted"
        \/ now >= accessGrants[existingAccessId].expiresAt

(* mutant: a Granted grant blocks a new request also after its expiry *)
noActiveAccess_expiredBlocks(r, d) ==
    LET existingAccessId == recordDoctorAccess[r][d] IN
    existingAccessId # 0 => accessGrants[existingAccessId].status # "Granted"

(* the check of requestAccess on the grant the pair's pointer addresses:   *)
(* passes when there is none, when it is not Granted, or when it expired   *)
noActiveAccess(r, d) ==
    LET existingAccessId == recordDoctorAccess[r][d] IN
    existingAccessId # 0 =>
        \/ accessGrants[existingAccessId].status # "Granted"
        \/ now > accessGrants[existingAccessId].expiresAt

(* mutant: any registered doctor passes, whatever its verification status *)
requestAccessRequire_anyRegistered(c, r, reason) ==
    IF ~doctors[c].isRegistered THEN "Only verified doctors"
    ELSE IF getRecordRequire(r) # "ok" THEN getRecordRequire(r)
    ELSE IF ~records[r].isActive THEN "Record is not active"
    ELSE IF ~(Bytes(reason) > 0) THEN "Reason required"
    ELSE IF ~(Bytes(reason) <= MaxReason) THEN "Reason too long"
    ELSE IF ~noActiveAccess(r, c) THEN "Already has active access"
    ELSE "ok"

(* mutant: the bound on the reason is < where the code has <= *)
requestAccessRequire_reasonBelowMax(c, r, reason) ==
    IF ~isVerifiedDoctor(c) THEN "Only verified doctors"
    ELSE IF getRecordRequire(r) # "ok" THEN getRecordRequire(r)
    ELSE IF ~records[r].isActive THEN "Record is not active"
    ELSE IF ~(Bytes(reason) > 0) THEN "Reason required"
    ELSE IF ~(Bytes(reason) < MaxReason) THEN "Reason too long"
    ELSE IF ~noActiveAccess(r, c) THEN "Already has active access"
    ELSE "ok"

requestAccessRequire(c, r, reason) ==
    IF ~isVerifiedDoctor(c) THEN "Only verified doctors"
    ELSE IF getRecordRequire(r) # "ok" THEN getRecordRequire(r)
    ELSE IF ~records[r].isActive THEN "Record is not active"
    ELSE IF ~(Bytes(reason) > 0) THEN "Reason required"
    ELSE IF ~(Bytes(reason) <= MaxReason) THEN "Reason too long"
    ELSE IF ~noActiveAccess(r, c) THEN "Already has active access"
    ELSE "ok"

(* mutant: the pair's pointer is written at the first request only *)
requestAccess_keepsFirstPointer(c, r, reason) ==
    /\ requestAccessRequire(c, r, reason) = "ok"
    /\ accessCounter < MaxGrants
    /\ LET newAccessId == accessCounter + 1 IN
       /\ accessCounter' = newAccessId
       /\ accessGrants' = [accessGrants EXCEPT ![newAccessId] =
              [recordId |-> r, patient |-> records[r].owner, doctor |-> c,
               encryptedKeyCID |-> "", grantedAt |-> 0, expiresAt |-> 0,
               status |-> "Requested", requestReason |-> reason]]
       /\ recordDoctorAccess' =
              IF recordDoctorAccess[r][c] = 0
              THEN [recordDoctorAccess EXCEPT ![r][c] = newAccessId]
              ELSE recordDoctorAccess
       /\ patientPendingRequests' =
              [patientPendingRequests EXCEPT ![records[r].owner] = Append(@, newAccessId)]
    /\ UNCHANGED <<now, doctorAccessibleRecords, patientVars, doctorVars, recordVars>>
    /\ receipt' = "ok"
    /\ Emit([name |-> "AccessRequested", id |-> accessCounter + 1])
    /\ UNCHANGED contentStore

requestAccess(c, r, reason) ==
    /\ requestAccessRequire(c, r, reason) = "ok"
    /\ accessCounter < MaxGrants
    /\ LET newAccessId == accessCounter + 1 IN
       /\ accessCounter' = newAccessId
       /\ accessGrants' = [accessGrants EXCEPT ![newAccessId] =
              [recordId |-> r, patient |-> records[r].owner, doctor |-> c,
               encryptedKeyCID |-> "", grantedAt |-> 0, expiresAt |-> 0,
               status |-> "Requested", requestReason |-> reason]]
       /\ recordDoctorAccess' = [recordDoctorAccess EXCEPT ![r][c] = newAccessId]
       /\ patientPendingRequests' =
              [patientPendingRequests EXCEPT ![records[r].owner] = Append(@, newAccessId)]
    /\ UNCHANGED <<now, doctorAccessibleRecords, patientVars, doctorVars, recordVars>>
    /\ receipt' = "ok"
    /\ Emit([name |-> "AccessRequested", id |-> accessCounter + 1])
    /\ UNCHANGED contentStore

(* mutant: the require on the Requested state is missing *)
grantAccessRequire_anyState(c, a, keyCID, days) ==
    IF accessGrants[a].recordId = 0 THEN "Access request does not exist"
    ELSE IF accessGrants[a].patient # c THEN "Only patient can grant access"
    ELSE IF ~(Bytes(keyCID) > 0) THEN "Encrypted key CID required"
    ELSE IF ~(days > 0 /\ days <= MaxDuration) THEN "Invalid duration"
    ELSE "ok"

(* mutant: the bound on the duration is < where the code has <= *)
grantAccessRequire_belowMax(c, a, keyCID, days) ==
    IF accessGrants[a].recordId = 0 THEN "Access request does not exist"
    ELSE IF accessGrants[a].patient # c THEN "Only patient can grant access"
    ELSE IF accessGrants[a].status # "Requested" THEN "Access not in requested state"
    ELSE IF ~(Bytes(keyCID) > 0) THEN "Encrypted key CID required"
    ELSE IF ~(days > 0 /\ days < MaxDuration) THEN "Invalid duration"
    ELSE "ok"

grantAccessRequire(c, a, keyCID, days) ==
    IF accessGrants[a].recordId = 0 THEN "Access request does not exist"
    ELSE IF accessGrants[a].patient # c THEN "Only patient can grant access"
    ELSE IF accessGrants[a].status # "Requested" THEN "Access not in requested state"
    ELSE IF ~(Bytes(keyCID) > 0) THEN "Encrypted key CID required"
    ELSE IF ~(days > 0 /\ days <= MaxDuration) THEN "Invalid duration"
    ELSE "ok"

(* mutant: the duration is added as seconds, not as days *)
grantAccessTx_secondsNotDays(c, a, keyCID, days) ==
    /\ grantAccessRequire(c, a, keyCID, days) = "ok"
    /\ LET expiresAt == now + days IN
       accessGrants' = [accessGrants EXCEPT ![a].encryptedKeyCID = keyCID,
                                            ![a].grantedAt = now,
                                            ![a].expiresAt = expiresAt,
                                            ![a].status = "Granted"]
    /\ doctorAccessibleRecords' =
           [doctorAccessibleRecords EXCEPT ![accessGrants[a].doctor] =
               Append(@, accessGrants[a].recordId)]
    /\ UNCHANGED <<now, accessCounter, recordDoctorAccess, patientPendingRequests,
                   patientVars, doctorVars, recordVars>>
    /\ receipt' = "ok"
    /\ Emit([name |-> "AccessGranted", id |-> a])

(* mutant: the AccessGranted event is not emitted *)
grantAccessTx_noEvent(c, a, keyCID, days) ==
    /\ grantAccessRequire(c, a, keyCID, days) = "ok"
    /\ LET expiresAt == now + days * DAY IN
       accessGrants' = [accessGrants EXCEPT ![a].encryptedKeyCID = keyCID,
                                            ![a].grantedAt = now,
                                            ![a].expiresAt = expiresAt,
                                            ![a].status = "Granted"]
    /\ doctorAccessibleRecords' =
           [doctorAccessibleRecords EXCEPT ![accessGrants[a].doctor] =
               Append(@, accessGrants[a].recordId)]
    /\ UNCHANGED <<now, accessCounter, recordDoctorAccess, patientPendingRequests,
                   patientVars, doctorVars, recordVars>>
    /\ receipt' = "ok"
    /\ NoEmit

grantAccessTx(c, a, keyCID, days) ==
    /\ grantAccessRequire(c, a, keyCID, days) = "ok"
    /\ LET expiresAt == now + days * DAY IN
       accessGrants' = [accessGrants EXCEPT ![a].encryptedKeyCID = keyCID,
                                            ![a].grantedAt = now,
                                            ![a].expiresAt = expiresAt,
                                            ![a].status = "Granted"]
    /\ doctorAccessibleRecords' =
           [doctorAccessibleRecords EXCEPT ![accessGrants[a].doctor] =
               Append(@, accessGrants[a].recordId)]
    /\ UNCHANGED <<now, accessCounter, recordDoctorAccess, patientPendingRequests,
                   patientVars, doctorVars, recordVars>>
    /\ receipt' = "ok"
    /\ Emit([name |-> "AccessGranted", id |-> a])

(* a call of grantAccess that uploads nothing *)
grantAccess(c, a, keyCID, days) ==
    /\ grantAccessTx(c, a, keyCID, days)
    /\ UNCHANGED contentStore

(* mutant: the require on the expiry is missing *)
revokeAccessRequire_noExpiryCheck(c, a) ==
    IF accessGrants[a].recordId = 0 THEN "Access does not exist"
    ELSE IF accessGrants[a].patient # c THEN "Only patient can revoke"
    ELSE IF accessGrants[a].status # "Granted" THEN "Access not granted"
    ELSE "ok"

revokeAccessRequire(c, a) ==
    IF accessGrants[a].recordId = 0 THEN "Access does not exist"
    ELSE IF accessGrants[a].patient # c THEN "Only patient can revoke"
    ELSE IF accessGrants[a].status # "Granted" THEN "Access not granted"
    ELSE IF ~(now <= accessGrants[a].expiresAt) THEN "Access already expired"
    ELSE "ok"

(* mutant: revoking also ends the validity at the time of the call *)
revokeAccess_endsValidity(c, a) ==
    /\ revokeAccessRequire(c, a) = "ok"
    /\ accessGrants' = [accessGrants EXCEPT ![a].status = "Revoked",
                                            ![a].expiresAt = now]
    /\ UNCHANGED <<now, accessCounter, recordDoctorAccess, doctorAccessibleRecords,
                   patientPendingRequests, patientVars, doctorVars, recordVars>>
    /\ receipt' = "ok"
    /\ Emit([name |-> "AccessRevoked", id |-> a])
    /\ UNCHANGED contentStore

(* mutant: revoking also takes the record out of the doctor's index *)
revokeAccess_prunesIndex(c, a) ==
    /\ revokeAccessRequire(c, a) = "ok"
    /\ accessGrants' = [accessGrants EXCEPT ![a].status = "Revoked"]
    /\ doctorAccessibleRecords' =
           [doctorAccessibleRecords EXCEPT ![accessGrants[a].doctor] =
               SelectSeq(@, LAMBDA r : r # accessGrants[a].recordId)]
    /\ UNCHANGED <<now, accessCounter, recordDoctorAccess,
                   patientPendingRequests, patientVars, doctorVars, recordVars>>
    /\ receipt' = "ok"
    /\ Emit([name |-> "AccessRevoked", id |-> a])
    /\ UNCHANGED contentStore

(* mutant: the row is deleted instead of being marked Revoked *)
revokeAccess_deletesRow(c, a) ==
    /\ revokeAccessRequire(c, a) = "ok"
    /\ accessGrants' = [accessGrants EXCEPT ![a] = NoGrant]
    /\ UNCHANGED <<now, accessCounter, recordDoctorAccess, doctorAccessibleRecords,
                   patientPendingRequests, patientVars, doctorVars, recordVars>>
    /\ receipt' = "ok"
    /\ Emit([name |-> "AccessRevoked", id |-> a])
    /\ UNCHANGED contentStore

revokeAccess(c, a) ==
    /\ revokeAccessRequire(c, a) = "ok"
    /\ accessGrants' = [accessGrants EXCEPT ![a].status = "Revoked"]
    /\ UNCHANGED <<now, accessCounter, recordDoctorAccess, doctorAccessibleRecords,
                   patientPendingRequests, patientVars, doctorVars, recordVars>>
    /\ receipt' = "ok"
    /\ Emit([name |-> "AccessRevoked", id |-> a])
    /\ UNCHANGED contentStore

hasActiveAccess(r, d) ==
    LET accessId == recordDoctorAccess[r][d] IN
    IF accessId = 0 THEN FALSE
    ELSE /\ accessGrants[accessId].status = "Granted"
         /\ now <= accessGrants[accessId].expiresAt

(* mutant: the index is returned without the filter on the status *)
getPendingRequests_unfiltered(p) ==
    LET allRequests == patientPendingRequests[p] IN
    SelectSeq(allRequests, LAMBDA a : TRUE)

(* AccessControl.getPendingRequests: the patient's request index, in its     *)
(* order, without the ids whose grant is no longer Requested                 *)
getPendingRequests(p) ==
    LET allRequests == patientPendingRequests[p] IN
    SelectSeq(allRequests, LAMBDA a : accessGrants[a].status = "Requested")

(* the ids a page that lists getPendingRequests(p) offers *)
ElementsOfPending(p) ==
    {getPendingRequests(p)[i] : i \in 1 .. Len(getPendingRequests(p))}

(* mutant: the filter does not compare the clock with expiresAt *)
getDoctorAccessibleRecords_ignoresExpiry(d) ==
    LET allRecords == doctorAccessibleRecords[d] IN
    SelectSeq(allRecords,
              LAMBDA r : LET accessId == recordDoctorAccess[r][d] IN
                         /\ accessId # 0
                         /\ accessGrants[accessId].status = "Granted")

(* AccessControl.getDoctorAccessibleRecords: the doctor's record index, in   *)
(* its order, without the entries whose pair has no Granted, unexpired grant *)
getDoctorAccessibleRecords(d) ==
    LET allRecords == doctorAccessibleRecords[d] IN
    SelectSeq(allRecords,
              LAMBDA r : LET accessId == recordDoctorAccess[r][d] IN
                         /\ accessId # 0
                         /\ accessGrants[accessId].status = "Granted"
                         /\ now <= accessGrants[accessId].expiresAt)

getAccessGrantRequire(a) ==
    IF accessGrants[a].recordId = 0 THEN "Access does not exist" ELSE "ok"

(* what getAccessGrant, and the getter of the public mapping, return to    *)
(* caller c: the whole row, whoever calls                                  *)
getAccessGrant(c, a) == accessGrants[a]

getEncryptedKeyRequire(c, r) ==
    LET accessId == recordDoctorAccess[r][c]
        access   == accessGrants[accessId]
    IN  IF accessId = 0 THEN "No access request found"
        ELSE IF access.status # "Granted" THEN "Access not granted"
        ELSE IF ~(now <= access.expiresAt) THEN "Access expired"
        ELSE "ok"

(* mutant: the digest of the latest grant of the record, whoever its doctor *)
getEncryptedKey_latestOfRecord(c, r) ==
    LET latest == CHOOSE a \in AccessIds :
                      /\ accessGrants[a].recordId = r \/ a = 0
                      /\ \A b \in AccessIds : accessGrants[b].recordId = r => b <= a
    IN  accessGrants[latest].encryptedKeyCID

(* what getEncryptedKey returns to caller c when its requires pass *)
getEncryptedKey(c, r) ==
    LET accessId == recordDoctorAccess[r][c]
        access   == accessGrants[accessId]
    IN  access.encryptedKeyCID

----------------------------------------------------------------------------
(* Specifications.  Transactions come from any address; those that revert  *)
(* are no steps.  Each specification starts from the freshly deployed      *)
(* contracts and bounds who registers in which role.                       *)

(* The identity registries alone: "p" and "d" register as patients, "d"    *)
(* also as a doctor; profiles are updated and the administrator role is    *)
(* handed over.                                                            *)
NextRegistry ==
    \/ Tick
    \/ \E c \in {"p", "d"}, cid \in ProfileCIDs : registerPatient(c, cid)
    \/ \E cid \in ProfileCIDs, lic \in Licenses : registerDoctor("d", cid, lic)
    \/ \E c \in Addr, cid \in NewProfiles : patientUpdateProfile(c, cid)
    \/ \E c \in Addr, cid \in NewProfiles : doctorUpdateProfile(c, cid)
    \/ \E c \in Addr, d \in Addr : verifyDoctor(c, d)
    \/ \E c \in Addr, d \in Addr : rejectDoctor(c, d)
    \/ \E c \in Addr, d \in Addr : suspendDoctor(c, d)
    \/ \E c \in Addr, a \in {Deployer, "d", ZeroAddress} : transferAdmin(c, a)

SpecRegistry == Init /\ [][NextRegistry]_vars

(* The record ledger: "p" and "d" register as patients, "d" also as a      *)
(* doctor; anybody submits records for anybody.                            *)
NextRecords ==
    \/ Tick
    \/ \E c \in {"p", "d"}, cid \in ProfileCIDs : registerPatient(c, cid)
    \/ \E cid \in ProfileCIDs, lic \in Licenses : registerDoctor("d", cid, lic)
    \/ \E c \in Addr, d \in Addr : verifyDoctor(c, d)
    \/ \E c \in Addr, d \in Addr : rejectDoctor(c, d)
    \/ \E c \in Addr, d \in Addr : suspendDoctor(c, d)
    \/ \E c \in Addr, o \in Addr, data \in DataCIDs, key \in KeyCIDs, desc \in Descriptions :
           recordCounter < MaxRecords /\ addRecord(c, o, data, key, "LabResult", "h1", desc)
    \/ \E c \in Addr, r \in RecordIds : deactivateRecord(c, r)

SpecRecords == Init /\ [][NextRecords]_vars

(* The access engine on top of the other three contracts: patient "p" and  *)
(* doctor "d" register and "p" uploads on the day of deployment, and the   *)
(* clock runs from the first access request on.                            *)
Next ==
    \/ accessCounter > 0 /\ Tick
    \/ \E cid \in ProfileCIDs : registerPatient("p", cid)
    \/ \E cid \in ProfileCIDs, lic \in Licenses : registerDoctor("d", cid, lic)
    \/ \E c \in Addr, d \in Addr : verifyDoctor(c, d)
    \/ \E c \in Addr, d \in Addr : rejectDoctor(c, d)
    \/ \E c \in Addr, d \in Addr : suspendDoctor(c, d)
    \/ \E o \in Addr, data \in DataCIDs, key \in KeyCIDs, desc \in Descriptions :
           recordCounter < MaxRecords /\ addRecord(o, o, data, key, "LabResult", "h1", desc)
    \/ \E c \in Addr, r \in RecordIds : deactivateRecord(c, r)
    \/ \E c \in Addr, r \in RecordIds, reason \in Reasons : requestAccess(c, r, reason)
    \/ \E c \in Addr, a \in AccessIds, key \in KeyCIDs, days \in Durations :
           grantAccess(c, a, key, days)
    \/ \E c \in Addr, a \in AccessIds : revokeAccess(c, a)

Spec == Init /\ [][Next]_vars

(* Two doctors at one patient's records: "d" and "adm" register as doctors   *)
(* and are verified, "p" uploads, and "p" hands each doctor the digest of    *)
(* the key wrapped for that doctor.  The clock runs while a grant is in      *)
(* status Granted.                                                           *)
WrappedKeyFor(d) == IF d = "d" THEN "QmKeyForD" ELSE "QmKeyForAdm"

NextKeys ==
    \/ (\E a \in AccessIds : accessGrants[a].status = "Granted") /\ Tick
    \/ registerPatient("p", "QmProfile")
    \/ \E c \in {"d", "adm"} : registerDoctor(c, "QmProfile", "LIC-1")
    \/ \E c \in Addr, d \in Addr : verifyDoctor(c, d)
    \/ /\ recordCounter < MaxRecords
       /\ addRecord("p", "p", "QmData", "QmKey", "LabResult", "h1", "Annual blood work")
    \/ \E c \in Addr, r \in RecordIds : requestAccess(c, r, "consult")
    \/ \E c \in Addr, a \in AccessIds, days \in Durations :
           grantAccess(c, a, WrappedKeyFor(accessGrants[a].doctor), days)
    \/ \E c \in Addr, a \in AccessIds : revokeAccess(c, a)

SpecKeys == Init /\ [][NextKeys]_vars

(* The transactions as they are submitted, the reverted ones included: the    *)
(* registrations and uploads of Spec, the profile updates, and any call of    *)
(* any function by any address with its requires failing.                     *)
NextAttempts ==
    \/ \E cid \in ProfileCIDs : registerPatient("p", cid)
    \/ \E msg \in {registerPatientRequire(c, cid) : c \in Addr, cid \in ProfileCIDs} :
           Reverted(msg)
    \/ \E cid \in ProfileCIDs, lic \in Licenses : registerDoctor("d", cid, lic)
    \/ \E msg \in {registerDoctorRequire(c, cid, lic) :
                       c \in Addr, cid \in ProfileCIDs, lic \in Licenses} :
           Reverted(msg)
    \/ \E c \in Addr, cid \in NewProfiles : patientUpdateProfile(c, cid)
    \/ \E msg \in {patientUpdateProfileRequire(c, cid) : c \in Addr, cid \in NewProfiles} :
           Reverted(msg)
    \/ \E c \in Addr, cid \in NewProfiles : doctorUpdateProfile(c, cid)
    \/ \E msg \in {doctorUpdateProfileRequire(c, cid) : c \in Addr, cid \in NewProfiles} :
           Reverted(msg)
    \/ \E c \in Addr, d \in Addr : verifyDoctor(c, d)
    \/ \E msg \in {verifyDoctorRequire(c, d) : c \in Addr, d \in Addr} : Reverted(msg)
    \/ \E c \in Addr, d \in Addr : rejectDoctor(c, d)
    \/ \E msg \in {rejectDoctorRequire(c, d) : c \in Addr, d \in Addr} : Reverted(msg)
    \/ \E c \in Addr, d \in Addr : suspendDoctor(c, d)
    \/ \E msg \in {suspendDoctorRequire(c, d) : c \in Addr, d \in Addr} : Reverted(msg)
    \/ \E o \in Addr, data \in DataCIDs, key \in KeyCIDs, desc \in Descriptions :
           recordCounter < MaxRecords /\ addRecord(o, o, data, key, "LabResult", "h1", desc)
    \/ \E msg \in {addRecordRequire(c, o, data, key, desc) :
                       c \in Addr, o \in Addr, data \in DataCIDs, key \in KeyCIDs,
                       desc \in Descriptions} :
           Reverted(msg)
    \/ \E c \in Addr, r \in RecordIds : deactivateRecord(c, r)
    \/ \E msg \in {deactivateRecordRequire(c, r) : c \in Addr, r \in RecordIds} :
           Reverted(msg)
    \/ \E c \in Addr, r \in RecordIds, reason \in Reasons : requestAccess(c, r, reason)
    \/ \E msg \in {requestAccessRequire(c, r, reason) :
                       c \in Addr, r \in RecordIds, reason \in Reasons} :
           Reverted(msg)
    \/ \E c \in Addr, a \in AccessIds, key \in KeyCIDs, days \in Durations :
           grantAccess(c, a, key, days)
    \/ \E msg \in {grantAccessRequire(c, a, key, days) :
                       c \in Addr, a \in AccessIds, key \in KeyCIDs, days \in Durations} :
           Reverted(msg)
    \/ \E c \in Addr, a \in AccessIds : revokeAccess(c, a)
    \/ \E msg \in {revokeAccessRequire(c, a) : c \in Addr, a \in AccessIds} : Reverted(msg)

SpecAttempts == Init /\ [][NextAttempts]_vars

(* The read views of the access engine: two patients "p" and "adm" upload    *)
(* their own records, then the doctor "d" requests them and the views are    *)
(* read in every state.  Inputs are the valid ones; registrations and        *)
(* uploads precede the first request, and the clock runs while a grant is in *)
(* force.                                                                    *)
NextViews ==
    \/ (\E a \in AccessIds : accessGrants[a].status = "Granted") /\ Tick
    \/ \E c \in {"p", "adm"} : accessCounter = 0 /\ registerPatient(c, "QmProfile")
    \/ accessCounter = 0 /\ registerDoctor("d", "QmProfile", "LIC-1")
    \/ accessCounter = 0 /\ verifyDoctor("adm", "d")
    \/ \E o \in {"p", "adm"} :
           /\ accessCounter = 0
           /\ addRecord(o, o, "QmData", "QmKey", "LabResult", "h1", "Annual blood work")
    \/ \E r \in RecordIds : requestAccess("d", r, "consult")
    \/ \E c \in Addr, a \in AccessIds : grantAccess(c, a, "QmKey", 1)
    \/ \E c \in Addr, a \in AccessIds : revokeAccess(c, a)

SpecViews == Init /\ [][NextViews]_vars

(* The record index: two patients "p" and "d" upload and deactivate their    *)
(* own records while the clock runs.                                         *)
NextIndex ==
    \/ recordCounter > 0 /\ Tick
    \/ \E c \in {"p", "d"} : registerPatient(c, "QmProfile")
    \/ \E o \in {"p", "d"} :
           addRecord(o, o, "QmData", "QmKey", "LabResult", "h1", "Annual blood work")
    \/ \E c \in Addr, r \in RecordIds : deactivateRecord(c, r)

SpecIndex == Init /\ [][NextIndex]_vars

(* The events: an indexer listens from deployment on.  The patient "p" and   *)
(* the doctor "d" register with valid inputs, "p" uploads, deactivates,      *)
(* grants and revokes, "d" requests; calls of the five functions of the      *)
(* record ledger and the access engine that fail a require are steps.  The   *)
(* log is followed up to MaxEvents events.                                   *)
NextEvents ==
    \/ Len(eventLog) < MaxEvents /\ registerPatient("p", "QmProfile")
    \/ Len(eventLog) < MaxEvents /\ registerDoctor("d", "QmProfile", "LIC-1")
    \/ Len(eventLog) < MaxEvents /\ verifyDoctor("adm", "d")
    \/ Len(eventLog) < MaxEvents /\ recordCounter < MaxRecords
         /\ addRecord("p", "p", "QmData", "QmKey", "LabResult", "h1", "Annual blood work")
    \/ \E msg \in {addRecordRequire(c, o, "QmData", key, "Annual blood work") :
                       c \in Addr, o \in Addr, key \in KeyCIDs} :
           Reverted(msg)
    \/ \E r \in RecordIds : Len(eventLog) < MaxEvents /\ deactivateRecord("p", r)
    \/ \E msg \in {deactivateRecordRequire(c, r) : c \in Addr, r \in RecordIds} :
           Reverted(msg)
    \/ \E r \in RecordIds : Len(eventLog) < MaxEvents /\ requestAccess("d", r, "consult")
    \/ \E msg \in {requestAccessRequire(c, r, reason) :
                       c \in Addr, r \in RecordIds, reason \in Reasons} :
           Reverted(msg)
    \/ \E a \in AccessIds : Len(eventLog) < MaxEvents /\ grantAccess("p", a, "QmKey", 1)
    \/ \E msg \in {grantAccessRequire(c, a, key, days) :
                       c \in Addr, a \in AccessIds, key \in KeyCIDs, days \in Durations} :
           Reverted(msg)
    \/ \E a \in AccessIds : Len(eventLog) < MaxEvents /\ revokeAccess("p", a)
    \/ \E msg \in {revokeAccessRequire(c, a) : c \in Addr, a \in AccessIds} : Reverted(msg)

SpecEvents == InitSubscribed /\ [][NextEvents]_vars

----------------------------------------------------------------------------
(* The client: lib/encryption.ts, the content store behind /api/ipfs, the    *)
(* upload handler of FileUploadModal and the two grant handlers              *)

\* the keys generateEncryptionKey can return, and the files a patient uploads
SymKeys == {"K1", "K2"}
Files   == {"scan.pdf", "xray.png"}

(* exportKey: the raw bytes of the key in base 64; importKey reads the key   *)
(* back from that string without any secret                                  *)
exportKey(key) == <<"base64", key>>

importKey(keyString) == keyString[2]

(* encryptData: the AES-GCM ciphertext of the data under the key *)
encryptData(data, key) == <<"AES-GCM", key, data>>

(* decryptData: the data when the key is the one the ciphertext was made     *)
(* with; AES-GCM rejects every other key                                     *)
decryptData(encryptedData, key) ==
    IF encryptedData[1] = "AES-GCM" /\ encryptedData[2] = key
    THEN encryptedData[3]
    ELSE "OperationError"

(* calculateFileHash: the SHA-256 digest of the file's bytes in hexadecimal  *)
calculateFileHash(file) == "sha256-" \o file

(* encryptKeyForRecipient: the RSA-OAEP ciphertext of the raw key under the  *)
(* recipient's public key                                                    *)
PublicKeyOf(a) == "pk-" \o a

PrivateKeyOf(a) == "sk-" \o a

encryptKeyForRecipient(symmetricKey, recipientPublicKey) ==
    <<"RSA-OAEP", recipientPublicKey, symmetricKey>>

(* decryptKeyFromSender: the symmetric key when the private key belongs to   *)
(* the public key the ciphertext was made for; RSA-OAEP rejects anything else *)
decryptKeyFromSender(encryptedKey, recipientPrivateKey) ==
    IF /\ encryptedKey[1] = "RSA-OAEP"
       /\ \E a \in Addr : /\ encryptedKey[2] = PublicKeyOf(a)
                          /\ recipientPrivateKey = PrivateKeyOf(a)
    THEN encryptedKey[3]
    ELSE "OperationError"

(* the digest the content store returns for an artifact: a function of the   *)
(* artifact's content, different for different content                       *)
Cid(artifact) ==
    IF artifact.type = "encryption-key"
    THEN "QmKeyData-" \o artifact.encryptedFor \o "-" \o artifact.key[1]
                      \o "-" \o artifact.key[2]
    ELSE "QmFile-" \o artifact.ciphertext[2] \o "-" \o artifact.ciphertext[3]

(* FileUploadModal.handleUpload: encrypt the file under a new key, upload    *)
(* the ciphertext, export the key, upload the key document, then send        *)
(* addRecord with the two digests.  The uploads stay in the content store    *)
(* when the transaction reverts.                                             *)
handleUpload(walletAddress, file, key, description) ==
    LET encryptedBlob == [type |-> "encrypted-health-record",
                          ciphertext |-> encryptData(file, key),
                          originalFileName |-> file]
        dataCID == Cid(encryptedBlob)
        keyString == exportKey(key)
        keyData == [type |-> "encryption-key", encryptedFor |-> walletAddress,
                    key |-> keyString, algorithm |-> "AES-GCM-256"]
        encryptedKeyCID == Cid(keyData)
        recordHashBytes == "0x" \o calculateFileHash(file)
    IN
    /\ Bytes(description) > 0
    /\ Bytes(description) <= MaxDescription
    /\ recordCounter < MaxUploads
    /\ contentStore' = contentStore \cup {encryptedBlob, keyData}
    /\ IF addRecordRequire(walletAddress, walletAddress, dataCID, encryptedKeyCID,
                           description) = "ok"
       THEN addRecordTx(walletAddress, walletAddress, dataCID, encryptedKeyCID,
                        "LabResult", recordHashBytes, description)
       ELSE /\ receipt' = "reverted"
            /\ NoEmit
            /\ UNCHANGED <<now, ledger>>

(* handleGrantAccess of the dashboard page: read the grant and the record,   *)
(* take the record's own key digest and grant for 30 days                    *)
handleGrantAccess(walletAddress, accessId, recordId) ==
    /\ getAccessGrantRequire(accessId) = "ok"
    /\ getRecordRequire(recordId) = "ok"
    /\ LET encryptedKeyCID == records[recordId].encryptedKeyCID IN
       grantAccessTx(walletAddress, accessId, encryptedKeyCID, 30)
    /\ UNCHANGED contentStore

(* handleGrantAccess of the patient's access page: grant with a placeholder  *)
(* digest for the duration chosen in the form                                *)
handleGrantAccessPage(walletAddress, accessId, duration) ==
    /\ LET encryptedKeyCID == "QmPlaceholderEncryptedKeyCID" IN
       grantAccessTx(walletAddress, accessId, encryptedKeyCID, duration)
    /\ UNCHANGED contentStore

(* The patient "p" works through the client: uploads through handleUpload    *)
(* and grants through either grant handler, on the requests the handler's    *)
(* page lists; the doctor "d" requests.  The clock runs while a grant is in  *)
(* status Granted.                                                           *)
NextClient ==
    \/ (\E a \in AccessIds : accessGrants[a].status = "Granted") /\ Tick
    \/ registerPatient("p", "QmProfile")
    \/ registerDoctor("d", "QmProfile", "LIC-1")
    \/ verifyDoctor("adm", "d")
    \/ \E file \in Files, key \in SymKeys :
           recordCounter < MaxRecords /\ handleUpload("p", file, key, "Annual blood work")
    \/ \E r \in RecordIds : requestAccess("d", r, "consult")
    \/ \E a \in ElementsOfPending("p") :
           handleGrantAccess("p", a, accessGrants[a].recordId)
    \/ \E a \in ElementsOfPending("p") : handleGrantAccessPage("p", a, 1)

SpecClient == Init /\ [][NextClient]_vars

----------------------------------------------------------------------------
(* Properties of the access engine (under Spec) *)

(* the grant rows created so far for the pair (r, d) *)
GrantsFor(r, d) ==
    {a \in 1 .. accessCounter :
        accessGrants[a].recordId = r /\ accessGrants[a].doctor = d}

(* grant a is Granted and not past its expiry *)
GrantedUnexpired(a) ==
    accessGrants[a].status = "Granted" /\ now <= accessGrants[a].expiresAt

(* grant a is live: requested or granted, not revoked, not past its expiry *)
Live(a) ==
    \/ accessGrants[a].status = "Requested"
    \/ GrantedUnexpired(a)

(* a text requestAccess accepts, a digest and a duration grantAccess accepts *)
ValidReasons   == {x \in Reasons : Bytes(x) > 0 /\ Bytes(x) <= MaxReason}
ValidKeys      == {k \in KeyCIDs : Bytes(k) > 0}
ValidDurations == {n \in Durations : n > 0 /\ n <= MaxDuration}

\* C1: a step that revokes a grant for (r, d), i.e. takes it from Granted to
\* Revoked, ends in a state where hasActiveAccess(r, d) is false.
C1_RevokeEndsAccess ==
    [][\A a \in 1 .. MaxGrants, r \in RecordIds, d \in Addr :
          ( /\ accessGrants[a].recordId = r /\ accessGrants[a].doctor = d
            /\ accessGrants[a].status = "Granted"
            /\ accessGrants'[a].status = "Revoked" )
          => ~hasActiveAccess(r, d)']_vars

\* C2: while a grant for (r, d) is Granted (granted and not revoked since) and
\* no newer grant of the pair has been granted, hasActiveAccess(r, d) is true
\* exactly up to and including the grant's expiresAt.
C2_GrantedMeansActiveUntilExpiry ==
    \A r \in RecordIds, d \in Addr : \A a \in GrantsFor(r, d) :
        ( /\ accessGrants[a].status = "Granted"
          /\ \A b \in GrantsFor(r, d) : b > a => accessGrants[b].grantedAt = 0 )
        => (hasActiveAccess(r, d) <=> now <= accessGrants[a].expiresAt)

\* C3: every (record, doctor) pair has at most one live grant row.
C3_AtMostOneLiveGrant ==
    \A r \in RecordIds, d \in Addr :
        Cardinality({a \in GrantsFor(r, d) : Live(a)}) <= 1

\* C4: hasActiveAccess(r, d) is true if and only if some grant row for (r, d)
\* is Granted with expiresAt not earlier than the current time.
C4_ActiveIffSomeGrantedUnexpired ==
    \A r \in RecordIds, d \in Addr :
        hasActiveAccess(r, d) <=> \E a \in GrantsFor(r, d) : GrantedUnexpired(a)

\* C5: grantAccess succeeds only on a grant in status Requested; on a grant that
\* has already been granted, a further grantAccess by its patient with a valid
\* digest and duration reverts with "Access not in requested state", and no step
\* changes such a grant's grantedAt, expiresAt or digest, gives it status Granted
\* anew, or extends the doctor's accessible-record index on its account.
C5_GrantOnlyFromRequested ==
    /\ [](\A a \in 1 .. MaxGrants, k \in ValidKeys, n \in ValidDurations :
            accessGrants[a].status \in {"Granted", "Revoked"}
            => grantAccessRequire(accessGrants[a].patient, a, k, n)
                   = "Access not in requested state")
    /\ [][/\ \A c \in Addr, a \in AccessIds, k \in KeyCIDs, n \in Durations :
               grantAccess(c, a, k, n) => accessGrants[a].status = "Requested"
          /\ \A a \in 1 .. MaxGrants :
               accessGrants[a].status \in {"Granted", "Revoked"}
               => /\ accessGrants'[a].grantedAt = accessGrants[a].grantedAt
                  /\ accessGrants'[a].expiresAt = accessGrants[a].expiresAt
                  /\ accessGrants'[a].encryptedKeyCID = accessGrants[a].encryptedKeyCID
                  /\ accessGrants'[a].status \in {accessGrants[a].status, "Revoked"}
          /\ \A d \in Addr :
               doctorAccessibleRecords'[d] # doctorAccessibleRecords[d]
               => \E a \in 1 .. MaxGrants :
                     /\ accessGrants[a].doctor = d
                     /\ accessGrants[a].status = "Requested"
                     /\ accessGrants'[a].status = "Granted"
                     /\ doctorAccessibleRecords'[d] =
                            Append(doctorAccessibleRecords[d], accessGrants[a].recordId)
       ]_vars

\* C5 witness: a grant has been granted and is then revoked, and a further
\* grantAccess on it by its patient is refused for its state.
C5_Witness ==
    \E a \in 1 .. MaxGrants :
        /\ accessGrants[a].status = "Revoked"
        /\ grantAccessRequire(accessGrants[a].patient, a, "QmKey", 1)
               = "Access not in requested state"

(* the grant the (r, d) pointer addresses is Granted and unexpired *)
PointerActive(r, d) ==
    /\ recordDoctorAccess[r][d] # 0
    /\ GrantedUnexpired(recordDoctorAccess[r][d])

\* C6 as stated: whenever the grant addressed by (r, d) is Granted and unexpired,
\* requestAccess(r, reason) by d with an acceptable reason reverts with
\* "Already has active access".
C6_ActivePairAlwaysAlreadyActive ==
    \A r \in RecordIds, d \in Addr, reason \in ValidReasons :
        PointerActive(r, d)
        => requestAccessRequire(d, r, reason) = "Already has active access"

\* C6 amended: whenever the grant addressed by (r, d) is Granted and unexpired,
\* requestAccess(r, reason) by d reverts; it reverts with "Already has active
\* access" if d is still a verified doctor, r is still active and the reason has
\* 1 to 200 bytes, and with the message of the earlier failing require otherwise.
\* No step taken from such a state creates a grant row for (r, d) or changes the
\* (r, d) pointer.
C6_ActivePairRequestRejected ==
    /\ [](\A r \in RecordIds, d \in Addr, reason \in Reasons :
            PointerActive(r, d)
            => /\ requestAccessRequire(d, r, reason) # "ok"
               /\ ( isVerifiedDoctor(d) /\ records[r].isActive /\ reason \in ValidReasons
                    => requestAccessRequire(d, r, reason) = "Already has active access" )
               /\ ( ~isVerifiedDoctor(d)
                    => requestAccessRequire(d, r, reason) = "Only verified doctors" )
               /\ ( isVerifiedDoctor(d) /\ ~records[r].isActive
                    => requestAccessRequire(d, r, reason) = "Record is not active" ))
    /\ [][\A r \in RecordIds, d \in Addr :
            PointerActive(r, d)
            => /\ recordDoctorAccess'[r][d] = recordDoctorAccess[r][d]
               /\ ( accessCounter' # accessCounter
                    => ~( accessGrants'[accessCounter'].recordId = r
                          /\ accessGrants'[accessCounter'].doctor = d ) )
       ]_vars

\* C6 witness: on the very day a grant expires, with the doctor verified and the
\* record active, a further request of the pair is refused as already active.
C6_Witness ==
    \E r \in RecordIds, d \in Addr :
        /\ PointerActive(r, d)
        /\ now = accessGrants[recordDoctorAccess[r][d]].expiresAt
        /\ requestAccessRequire(d, r, "consult") = "Already has active access"

----------------------------------------------------------------------------
(* Properties of the identity registries (under SpecRegistry) *)

\* C7: no address is registered both as a patient and as a doctor.
C7_AtMostOneRole ==
    \A a \in Addr : ~(patients[a].isRegistered /\ doctors[a].isRegistered)

\* C8: registerPatient and registerDoctor each succeed only for an address not
\* yet registered in that registry, and revert for a registered one; once
\* registered, an address stays registered with the same registration timestamp
\* and wallet address, and no step returns a doctor that left Pending to the
\* state of a fresh registration.
C8_RegisterAtMostOnce ==
    /\ [](\A a \in Addr, cid \in ProfileCIDs, lic \in Licenses :
            /\ patients[a].isRegistered
               => registerPatientRequire(a, cid) = "Patient already registered"
            /\ doctors[a].isRegistered
               => registerDoctorRequire(a, cid, lic) = "Doctor already registered")
    /\ [][/\ \A c \in Addr, cid \in ProfileCIDs :
               registerPatient(c, cid) => ~patients[c].isRegistered
          /\ \A c \in Addr, cid \in ProfileCIDs, lic \in Licenses :
               registerDoctor(c, cid, lic) => ~doctors[c].isRegistered
          /\ \A a \in Addr :
               /\ patients[a].isRegistered
                  => /\ patients'[a].isRegistered
                     /\ patients'[a].registeredAt = patients[a].registeredAt
                     /\ patients'[a].walletAddress = patients[a].walletAddress
                     /\ patients'[a].profileCID \in {patients[a].profileCID} \cup NewProfiles
               /\ doctors[a].isRegistered
                  => /\ doctors'[a].isRegistered
                     /\ doctors'[a].registeredAt = doctors[a].registeredAt
                     /\ doctors'[a].walletAddress = doctors[a].walletAddress
                     /\ doctors'[a].licenseNumber = doctors[a].licenseNumber
                     /\ doctors'[a].profileCID \in {doctors[a].profileCID} \cup NewProfiles
                     /\ doctors'[a].verifiedAt \in {doctors[a].verifiedAt, now}
                     /\ ( doctors'[a].status = "Pending" => doctors[a].status = "Pending" )
       ]_vars

\* C8 witness: a day after it registered, with its profile updated since, a
\* patient's repeated registration is refused.
C8_Witness ==
    \E a \in Addr :
        /\ patients[a].isRegistered
        /\ patients[a].registeredAt < now
        /\ patients[a].profileCID = "QmProfile2"
        /\ registerPatientRequire(a, "QmProfile") = "Patient already registered"

----------------------------------------------------------------------------
(* Properties of the record ledger (under SpecRecords) *)

\* C9: addRecord reverts unless the owner argument is a registered patient, so
\* the owner of every stored record is a registered patient; in particular a
\* verified doctor who is not a patient owns no record.
C9_OwnerIsPatient ==
    /\ \A r \in RecordIds : records[r].recordId # 0 => isPatient(records[r].owner)
    /\ \A c \in Addr, o \in Addr, data \in DataCIDs, key \in KeyCIDs, desc \in Descriptions :
          ~isPatient(o)
          => addRecordRequire(c, o, data, key, desc) = "Owner must be registered patient"
    /\ \A d \in Addr :
          isVerifiedDoctor(d) /\ ~isPatient(d)
          => \A r \in RecordIds : records[r].owner # d

\* C9 witness: a record is stored while a verified doctor who is not a patient
\* exists, whose addRecord naming itself as owner is refused.
C9_Witness ==
    /\ recordCounter > 0
    /\ \E d \in Addr :
          /\ isVerifiedDoctor(d) /\ ~isPatient(d)
          /\ addRecordRequire(d, d, "QmData", "QmKey", "Annual blood work")
                 = "Owner must be registered patient"

\* C10: addRecord succeeds only for a caller that is the owner or is, at the
\* time of the call, a verified doctor; so for every stored record addedBy is
\* the owner or a doctor verified no later than the record was created.
C10_AddedByOwnerOrVerifiedDoctor ==
    /\ [](\A r \in RecordIds :
            records[r].recordId # 0
            => \/ records[r].addedBy = records[r].owner
               \/ /\ doctors[records[r].addedBy].isRegistered
                  /\ doctors[records[r].addedBy].verifiedAt # 0
                  /\ doctors[records[r].addedBy].verifiedAt <= records[r].createdAt)
    /\ [](\A c \in Addr, o \in Addr, data \in DataCIDs, key \in KeyCIDs, desc \in Descriptions :
            addRecordRequire(c, o, data, key, desc) = "ok"
            => c = o \/ isVerifiedDoctor(c))
    /\ [][\A c \in Addr, o \in Addr, data \in DataCIDs, key \in KeyCIDs, desc \in Descriptions :
            addRecord(c, o, data, key, "LabResult", "h1", desc)
            => c = o \/ isVerifiedDoctor(c)]_vars

\* C10 witness: a record added by a doctor for a patient a day after the
\* doctor's verification, the doctor having lost the verified status since.
C10_Witness ==
    \E r \in RecordIds :
        /\ records[r].recordId # 0
        /\ records[r].addedBy # records[r].owner
        /\ doctors[records[r].addedBy].verifiedAt < records[r].createdAt
        /\ ~isVerifiedDoctor(records[r].addedBy)

(* the grants by which patient o gave doctor d access no later than time t *)
GrantedBefore(o, d, t) ==
    {a \in 1 .. accessCounter :
        /\ accessGrants[a].patient = o /\ accessGrants[a].doctor = d
        /\ accessGrants[a].grantedAt # 0 /\ accessGrants[a].grantedAt <= t}

\* C11: a record that somebody other than its owner added was added by a doctor
\* to whom the owner had granted access by then: for every stored record with
\* addedBy # owner there is a grant of the owner to addedBy with grantedAt no
\* later than the record's createdAt.
C11_DoctorAddsOnlyAfterGrant ==
    \A r \in RecordIds :
        records[r].recordId # 0 /\ records[r].addedBy # records[r].owner
        => GrantedBefore(records[r].owner, records[r].addedBy, records[r].createdAt) # {}

\* C12: once a record is created no step changes its recordId, owner, dataCID,
\* encryptedKeyCID, recordType, recordHash, shortDescription, addedBy or
\* createdAt, and no step removes it: ids 1 .. recordCounter stay assigned, the
\* counter never decreases and the owner's index keeps its entries.  The rows of
\* ids not yet assigned hold the zero value.
C12_RecordFieldsImmutable ==
    /\ [](\A r \in RecordIds :
            /\ r >= 1 /\ r <= recordCounter => records[r].recordId = r
            /\ r = 0 \/ r > recordCounter => records[r] = NoRecord)
    /\ [][/\ recordCounter' >= recordCounter
          /\ \A r \in RecordIds :
               records[r].recordId # 0
               => /\ records'[r].recordId = records[r].recordId
                  /\ records'[r].owner = records[r].owner
                  /\ records'[r].dataCID = records[r].dataCID
                  /\ records'[r].encryptedKeyCID = records[r].encryptedKeyCID
                  /\ records'[r].recordType = records[r].recordType
                  /\ records'[r].recordHash = records[r].recordHash
                  /\ records'[r].shortDescription = records[r].shortDescription
                  /\ records'[r].addedBy = records[r].addedBy
                  /\ records'[r].createdAt = records[r].createdAt
          /\ \A a \in Addr :
               /\ Len(patientRecords'[a]) >= Len(patientRecords[a])
               /\ SubSeq(patientRecords'[a], 1, Len(patientRecords[a])) = patientRecords[a]
       ]_vars

\* C12 witness: a record added by a doctor for a patient has been deactivated a
\* day or more after its creation and still carries what addRecord stored.
C12_Witness ==
    \E r \in RecordIds :
        /\ records[r].recordId = r /\ r # 0
        /\ ~records[r].isActive
        /\ records[r].createdAt < now
        /\ records[r].addedBy # records[r].owner
        /\ records[r].dataCID = "QmData" /\ records[r].encryptedKeyCID = "QmKey"
        /\ records[r].shortDescription = "Annual blood work"
        /\ patientRecords[records[r].owner] # <<>>

\* C13: deactivateRecord passes its requires only for the owner of an active
\* record; on an inactive record the owner's call reverts with "Record already
\* inactive" and nobody's call passes; every step that clears a record's active
\* flag is taken on a record that was active, and once the flag of a record is
\* false no step sets it again or changes anything else of the record.
C13_DeactivateOwnerOnlyIrreversible ==
    /\ [](\A c \in Addr, r \in RecordIds :
            /\ deactivateRecordRequire(c, r) = "ok"
               => records[r].recordId # 0 /\ records[r].owner = c /\ records[r].isActive
            /\ records[r].recordId # 0 /\ ~records[r].isActive
               => /\ deactivateRecordRequire(c, r) # "ok"
                  /\ deactivateRecordRequire(records[r].owner, r) = "Record already inactive"
            /\ records[r].recordId # 0 /\ records[r].owner # c
               => deactivateRecordRequire(c, r) = "Only owner can deactivate")
    /\ [][/\ \A c \in Addr, r \in RecordIds :
               deactivateRecord(c, r) => records[r].owner = c /\ records[r].isActive
          /\ \A r \in RecordIds :
               /\ records[r].isActive /\ ~records'[r].isActive
                  => \E c \in Addr : c = records[r].owner /\ deactivateRecord(c, r)
               /\ records[r].recordId # 0 /\ ~records[r].isActive
                  => records'[r] = records[r]
       ]_vars

\* C13 witness: a record created on an earlier day has been deactivated, and
\* its owner's repeated deactivateRecord is refused as already inactive.
C13_Witness ==
    \E r \in RecordIds :
        /\ records[r].recordId # 0 /\ ~records[r].isActive
        /\ records[r].createdAt < now
        /\ deactivateRecordRequire(records[r].owner, r) = "Record already inactive"
        /\ \E c \in Addr : deactivateRecordRequire(c, r) = "Only owner can deactivate"

----------------------------------------------------------------------------
(* Properties of the access engine's operations (under Spec) *)

\* C14: requestAccess passes its requires only for a caller that is a registered
\* doctor with status Verified at the time of the call; for any other caller it
\* reverts with "Only verified doctors", whatever the record and the reason, and
\* creates no grant; so the doctor of every grant row created is verified in the
\* state the row is created in, and has been verified at some time in every state.
C14_RequestOnlyByVerifiedDoctor ==
    /\ [](\A c \in Addr, r \in RecordIds, reason \in Reasons :
            /\ ~isVerifiedDoctor(c)
               => requestAccessRequire(c, r, reason) = "Only verified doctors"
            /\ requestAccessRequire(c, r, reason) = "ok"
               => doctors[c].isRegistered /\ doctors[c].status = "Verified")
    /\ [](\A a \in 1 .. accessCounter :
            /\ doctors[accessGrants[a].doctor].isRegistered
            /\ doctors[accessGrants[a].doctor].verifiedAt # 0)
    /\ [][/\ \A c \in Addr, r \in RecordIds, reason \in Reasons :
               requestAccess(c, r, reason) => isVerifiedDoctor(c)
          /\ \A a \in 1 .. MaxGrants :
               accessGrants[a].status = "None" /\ accessGrants'[a].status # "None"
               => /\ isVerifiedDoctor(accessGrants'[a].doctor)
                  /\ doctors' = doctors
       ]_vars

\* C14 witness: a doctor who requested access while verified has been suspended
\* or rejected since, and its further request on an active record is refused.
C14_Witness ==
    \E a \in 1 .. MaxGrants, r \in RecordIds :
        /\ accessGrants[a].status # "None"
        /\ doctors[accessGrants[a].doctor].status \in {"Rejected", "Suspended"}
        /\ records[r].isActive
        /\ requestAccessRequire(accessGrants[a].doctor, r, "consult") = "Only verified doctors"

(* a reason of exactly MaxReason bytes *)
Reason200 ==
    "rrrrrrrrrrrrrrrrrrrrrrrrrrrrrrrrrrrrrrrrrrrrrrrrrrrrrrrrrrrrrrrrrrrrrrrrrrrrrrrrrrrrrrrrrrrrrrrrrrrrrrrrrrrrrrrrrrrrrrrrrrrrrrrrrrrrrrrrrrrrrrrrrrrrrrrrrrrrrrrrrrrrrrrrrrrrrrrrrrrrrrrrrrrrrrrrrrrrrrrr"

BoundaryReasons == Reasons \cup {"r", Reason200}

\* C15: requestAccess(r, reason) passes its requires only if record r exists and
\* is active and the reason has 1 to 200 bytes, and for a verified doctor without
\* active access to an active record it passes exactly for such reasons (200
\* bytes pass, 0 and 201 do not).  A step that creates a grant takes the next
\* access id, writes a row in status Requested with the record's owner as
\* patient, the caller as doctor, the reason, and no digest or timestamps, sets
\* the pair's pointer to the id and appends the id to the owner's
\* pending-request index; it changes no other row, pointer or index.
C15_RequestAccessCreatesGrant ==
    /\ [](\A c \in Addr, r \in RecordIds, reason \in BoundaryReasons :
            /\ requestAccessRequire(c, r, reason) = "ok"
               => /\ r >= 1 /\ r <= recordCounter /\ records[r].recordId = r
                  /\ records[r].isActive
                  /\ Bytes(reason) >= 1 /\ Bytes(reason) <= 200
            /\ ( isVerifiedDoctor(c) /\ records[r].isActive /\ noActiveAccess(r, c) )
               => /\ Bytes(reason) = 0
                     => requestAccessRequire(c, r, reason) = "Reason required"
                  /\ Bytes(reason) >= 1 /\ Bytes(reason) <= 200
                     => requestAccessRequire(c, r, reason) = "ok"
                  /\ Bytes(reason) > 200
                     => requestAccessRequire(c, r, reason) = "Reason too long"
            /\ isVerifiedDoctor(c) /\ records[r].recordId = 0
               => requestAccessRequire(c, r, reason) = "Record does not exist"
            /\ isVerifiedDoctor(c) /\ records[r].recordId # 0 /\ ~records[r].isActive
               => requestAccessRequire(c, r, reason) = "Record is not active")
    /\ [][accessCounter' # accessCounter
          => LET id == accessCounter + 1
                 g  == accessGrants'[id]
             IN  /\ accessCounter' = id
                 /\ accessGrants[id] = NoGrant
                 /\ g.status = "Requested"
                 /\ g.recordId # 0 /\ records[g.recordId].isActive
                 /\ g.patient = records[g.recordId].owner
                 /\ isVerifiedDoctor(g.doctor)
                 /\ g.requestReason \in ValidReasons
                 /\ g.encryptedKeyCID = "" /\ g.grantedAt = 0 /\ g.expiresAt = 0
                 /\ requestAccess(g.doctor, g.recordId, g.requestReason)
                 /\ \A a \in AccessIds : a # id => accessGrants'[a] = accessGrants[a]
                 /\ recordDoctorAccess' =
                        [recordDoctorAccess EXCEPT ![g.recordId][g.doctor] = id]
                 /\ patientPendingRequests' =
                        [patientPendingRequests EXCEPT ![g.patient] = Append(@, id)]
                 /\ doctorAccessibleRecords' = doctorAccessibleRecords
       ]_vars

\* C15 witness: the second grant row has been created for a record whose owner's
\* pending-request index holds both ids in the order of the requests.
C15_Witness ==
    /\ accessCounter = 2
    /\ accessGrants[2].status = "Requested"
    /\ accessGrants[2].patient = records[accessGrants[2].recordId].owner
    /\ patientPendingRequests[accessGrants[2].patient] = <<1, 2>>
    /\ recordDoctorAccess[accessGrants[2].recordId][accessGrants[2].doctor] = 2

(* durations at and around the limits of grantAccess *)
BoundaryDurations == {0, 1, MaxDuration, MaxDuration + 1}

\* C16: grantAccess passes its requires exactly when the grant exists, the
\* caller is the grant's patient, the grant is Requested, the digest is
\* non-empty and the duration is 1 to 365 days; with everything else in order 0
\* and 366 days revert with "Invalid duration" and 1 and 365 pass.  A step that
\* makes a grant Granted is a grantAccess by the grant's patient: it stores the
\* digest, grantedAt = now and expiresAt = now + days * 86400, changes nothing
\* else of the row or of any other row, and appends the grant's record id to the
\* accessible-record index of the grant's doctor.
C16_GrantAccessRequirementsAndEffect ==
    /\ [](\A c \in Addr, a \in AccessIds, k \in KeyCIDs, n \in BoundaryDurations :
            /\ grantAccessRequire(c, a, k, n) = "ok"
               <=> /\ a >= 1 /\ a <= accessCounter
                   /\ c = accessGrants[a].patient
                   /\ accessGrants[a].status = "Requested"
                   /\ Bytes(k) > 0
                   /\ n >= 1 /\ n <= 365
            /\ ( /\ a >= 1 /\ a <= accessCounter /\ c = accessGrants[a].patient
                 /\ accessGrants[a].status = "Requested" /\ Bytes(k) > 0
                 /\ (n = 0 \/ n = 366) )
               => grantAccessRequire(c, a, k, n) = "Invalid duration"
            /\ a = 0 \/ a > accessCounter
               => grantAccessRequire(c, a, k, n) = "Access request does not exist"
            /\ a >= 1 /\ a <= accessCounter /\ c # accessGrants[a].patient
               => grantAccessRequire(c, a, k, n) = "Only patient can grant access"
            /\ ( /\ a >= 1 /\ a <= accessCounter /\ c = accessGrants[a].patient
                 /\ accessGrants[a].status = "Requested" /\ Bytes(k) = 0 )
               => grantAccessRequire(c, a, k, n) = "Encrypted key CID required")
    /\ [][\A a \in 1 .. MaxGrants :
            accessGrants[a].status # "Granted" /\ accessGrants'[a].status = "Granted"
            => LET g == accessGrants[a] IN
               \E k \in ValidKeys, n \in 1 .. 365 :
                  /\ grantAccess(g.patient, a, k, n)
                  /\ accessGrants' = [accessGrants EXCEPT ![a] =
                         [recordId |-> g.recordId, patient |-> g.patient,
                          doctor |-> g.doctor, encryptedKeyCID |-> k,
                          grantedAt |-> now, expiresAt |-> now + n * 86400,
                          status |-> "Granted", requestReason |-> g.requestReason]]
                  /\ doctorAccessibleRecords' =
                         [doctorAccessibleRecords EXCEPT ![g.doctor] = Append(@, g.recordId)]
                  /\ UNCHANGED <<accessCounter, recordDoctorAccess, patientPendingRequests>>
       ]_vars

\* C16 witness: one request has been granted on a day after deployment, for one
\* day, and the record is in the doctor's index; for another request, still
\* pending, the patient's grant passes with 365 days and not with 366.
C16_Witness ==
    \E a \in 1 .. MaxGrants, b \in 1 .. MaxGrants :
        /\ accessGrants[a].status = "Granted"
        /\ accessGrants[a].grantedAt > 1
        /\ accessGrants[a].expiresAt = accessGrants[a].grantedAt + 86400
        /\ accessGrants[a].encryptedKeyCID = "QmKey"
        /\ \E i \in 1 .. Len(doctorAccessibleRecords[accessGrants[a].doctor]) :
              doctorAccessibleRecords[accessGrants[a].doctor][i] = accessGrants[a].recordId
        /\ accessGrants[b].status = "Requested"
        /\ grantAccessRequire(accessGrants[b].patient, b, "QmKey", 365) = "ok"
        /\ grantAccessRequire(accessGrants[b].patient, b, "QmKey", 366) = "Invalid duration"

\* C17: revokeAccess passes its requires exactly when the grant exists, the
\* caller is the grant's patient, the grant is Granted and the time is not past
\* expiresAt.  On an existing grant a caller other than the patient reverts with
\* "Only patient can revoke"; the patient reverts with "Access not granted" on a
\* Requested or Revoked grant and with "Access already expired" on a Granted one
\* past expiresAt.  A step that makes a grant Revoked is such a revokeAccess and
\* changes only the status; a Revoked grant, and a Granted one past expiresAt,
\* is changed by no step, so a second revokeAccess by the patient always reverts
\* with "Access not granted".
C17_RevokeRequirements ==
    /\ [](\A c \in Addr, a \in AccessIds :
            /\ revokeAccessRequire(c, a) = "ok"
               <=> /\ a >= 1 /\ a <= accessCounter
                   /\ c = accessGrants[a].patient
                   /\ accessGrants[a].status = "Granted"
                   /\ now <= accessGrants[a].expiresAt
            /\ a = 0 \/ a > accessCounter
               => revokeAccessRequire(c, a) = "Access does not exist"
            /\ a >= 1 /\ a <= accessCounter /\ c # accessGrants[a].patient
               => revokeAccessRequire(c, a) = "Only patient can revoke"
            /\ ( /\ a >= 1 /\ a <= accessCounter /\ c = accessGrants[a].patient
                 /\ accessGrants[a].status \in {"Requested", "Revoked"} )
               => revokeAccessRequire(c, a) = "Access not granted"
            /\ ( /\ a >= 1 /\ a <= accessCounter /\ c = accessGrants[a].patient
                 /\ accessGrants[a].status = "Granted"
                 /\ now > accessGrants[a].expiresAt )
               => revokeAccessRequire(c, a) = "Access already expired")
    /\ [][\A a \in 1 .. MaxGrants :
            /\ accessGrants[a].status # "Revoked" /\ accessGrants'[a].status = "Revoked"
               => /\ accessGrants[a].status = "Granted"
                  /\ now <= accessGrants[a].expiresAt
                  /\ revokeAccess(accessGrants[a].patient, a)
                  /\ accessGrants' = [accessGrants EXCEPT ![a].status = "Revoked"]
            /\ accessGrants[a].status = "Revoked"
               => accessGrants'[a] = accessGrants[a]
            /\ accessGrants[a].status = "Granted" /\ now > accessGrants[a].expiresAt
               => accessGrants'[a] = accessGrants[a]
       ]_vars

\* C17 witness: one grant has been revoked and another, granted, has run past
\* its expiry; the patient's revokeAccess is refused on the first for its state
\* and on the second as already expired, and anybody else's for the caller.
C17_Witness ==
    \E a \in 1 .. MaxGrants, b \in 1 .. MaxGrants :
        /\ accessGrants[a].status = "Revoked"
        /\ revokeAccessRequire(accessGrants[a].patient, a) = "Access not granted"
        /\ accessGrants[b].status = "Granted"
        /\ now > accessGrants[b].expiresAt
        /\ revokeAccessRequire(accessGrants[b].patient, b) = "Access already expired"
        /\ revokeAccessRequire(accessGrants[b].doctor, b) = "Only patient can revoke"

----------------------------------------------------------------------------
(* Properties of the key hand-over (under SpecKeys) *)

\* C18: getEncryptedKey(r) called by c reverts with "No access request found"
\* when c never requested access to r, with "Access not granted" when the grant
\* the (r, c) pointer addresses is not Granted, and with "Access expired" when it
\* is Granted and the time is past its expiresAt.  It passes exactly when
\* hasActiveAccess(r, c) is true, and then the grant addressed is a grant of c
\* for r and the value returned is the digest stored in that grant, which is the
\* digest wrapped for c and the digest of no grant of another doctor.
C18_KeyOnlyForOwnGrant ==
    \A c \in Addr, r \in RecordIds :
        LET a == recordDoctorAccess[r][c] IN
        /\ GrantsFor(r, c) = {}
           => a = 0 /\ getEncryptedKeyRequire(c, r) = "No access request found"
        /\ GrantsFor(r, c) # {} => a \in GrantsFor(r, c)
        /\ a # 0 /\ accessGrants[a].status # "Granted"
           => getEncryptedKeyRequire(c, r) = "Access not granted"
        /\ a # 0 /\ accessGrants[a].status = "Granted" /\ now > accessGrants[a].expiresAt
           => getEncryptedKeyRequire(c, r) = "Access expired"
        /\ getEncryptedKeyRequire(c, r) = "ok" <=> hasActiveAccess(r, c)
        /\ getEncryptedKeyRequire(c, r) = "ok"
           => /\ accessGrants[a].doctor = c /\ accessGrants[a].recordId = r
              /\ getEncryptedKey(c, r) = accessGrants[a].encryptedKeyCID
              /\ getEncryptedKey(c, r) = WrappedKeyFor(c)
              /\ \A b \in 1 .. accessCounter :
                    accessGrants[b].doctor # c
                    => getEncryptedKey(c, r) # accessGrants[b].encryptedKeyCID

\* C18 witness: two doctors were granted access to one record with different
\* digests; the grant of the one has expired and the grant of the other has
\* not; the other is handed its own digest, the one is refused as expired, and
\* the patient, who never requested access, is refused as not found.
C18_Witness ==
    \E r \in RecordIds, a \in 1 .. MaxGrants, b \in 1 .. MaxGrants :
        /\ accessGrants[a].recordId = r /\ accessGrants[a].doctor = "d"
        /\ accessGrants[b].recordId = r /\ accessGrants[b].doctor = "adm"
        /\ accessGrants[a].encryptedKeyCID = "QmKeyForD"
        /\ accessGrants[b].encryptedKeyCID = "QmKeyForAdm"
        /\ getEncryptedKeyRequire("d", r) = "ok"
        /\ getEncryptedKey("d", r) = "QmKeyForD"
        /\ getEncryptedKeyRequire("adm", r) = "Access expired"
        /\ getEncryptedKeyRequire("p", r) = "No access request found"

----------------------------------------------------------------------------
(* Properties of the doctor verification (under SpecRegistry) *)

\* C20: verifyDoctor, rejectDoctor and suspendDoctor revert with "Only admin can
\* perform this action" for every caller but the current administrator and with
\* "Doctor not registered" for a target that is no registered doctor;
\* verifyDoctor passes exactly for the administrator on a registered doctor in
\* status Pending and reverts with "Doctor not pending" on any other status.  A
\* step that changes a doctor's status is one of the three calls by the
\* administrator of that moment on a registered doctor, and a step that makes a
\* doctor Verified is a verifyDoctor taken while the doctor was Pending.
C20_AdminOnlyVerification ==
    /\ [](\A c \in Addr, d \in Addr :
            /\ c # admin
               => /\ verifyDoctorRequire(c, d) = "Only admin can perform this action"
                  /\ rejectDoctorRequire(c, d) = "Only admin can perform this action"
                  /\ suspendDoctorRequire(c, d) = "Only admin can perform this action"
            /\ c = admin /\ ~doctors[d].isRegistered
               => /\ verifyDoctorRequire(c, d) = "Doctor not registered"
                  /\ rejectDoctorRequire(c, d) = "Doctor not registered"
                  /\ suspendDoctorRequire(c, d) = "Doctor not registered"
            /\ c = admin /\ doctors[d].isRegistered /\ doctors[d].status # "Pending"
               => verifyDoctorRequire(c, d) = "Doctor not pending"
            /\ verifyDoctorRequire(c, d) = "ok"
               <=> c = admin /\ doctors[d].isRegistered /\ doctors[d].status = "Pending"
            /\ rejectDoctorRequire(c, d) = "ok" <=> c = admin /\ doctors[d].isRegistered
            /\ suspendDoctorRequire(c, d) = "ok" <=> c = admin /\ doctors[d].isRegistered)
    /\ [][\A d \in Addr :
            /\ doctors'[d].status # doctors[d].status
               => /\ doctors[d].isRegistered
                  /\ \/ verifyDoctor(admin, d)
                     \/ rejectDoctor(admin, d)
                     \/ suspendDoctor(admin, d)
            /\ doctors'[d].status = "Verified" /\ doctors[d].status # "Verified"
               => /\ doctors[d].isRegistered /\ doctors[d].status = "Pending"
                  /\ verifyDoctor(admin, d)
                  /\ doctors'[d].verifiedAt = now
            /\ doctors'[d].verifiedAt # doctors[d].verifiedAt
               => doctors[d].status = "Pending" /\ doctors'[d].status = "Verified"
       ]_vars

\* C20 witness: the administrator role has passed to "d", a doctor who was
\* verified and then rejected; its verifyDoctor on itself is refused as not
\* pending, the deployer's as not from the administrator, and its rejectDoctor
\* on an address that is no doctor as not registered.
C20_Witness ==
    /\ admin = "d" /\ admin # Deployer
    /\ doctors["d"].status = "Rejected" /\ doctors["d"].verifiedAt # 0
    /\ verifyDoctorRequire("d", "d") = "Doctor not pending"
    /\ verifyDoctorRequire(Deployer, "d") = "Only admin can perform this action"
    /\ rejectDoctorRequire("d", "p") = "Doctor not registered"

----------------------------------------------------------------------------
(* Properties of rejected transactions (under SpecAttempts) *)

----------------------------------------------------------------------------
(* Properties of the grant life cycle (under Spec) *)

\* C21: the row of every access id assigned so far has status Requested,
\* Granted or Revoked and the row of every other id is the zero row with status
\* None; a step changes a row's status only from None to Requested, from
\* Requested to Granted or from Granted to Revoked, so that no row goes back,
\* goes from Requested to Revoked, leaves Revoked or gets the status Expired,
\* and no row once written returns to the zero row.
C21_StatusOnlyMovesForward ==
    /\ [](\A a \in AccessIds :
            /\ a >= 1 /\ a <= accessCounter
               => /\ accessGrants[a].status \in {"Requested", "Granted", "Revoked"}
                  /\ accessGrants[a].recordId # 0
            /\ a = 0 \/ a > accessCounter => accessGrants[a] = NoGrant)
    /\ [][/\ accessCounter' >= accessCounter
          /\ \A a \in AccessIds :
               /\ accessGrants'[a].status # accessGrants[a].status
                  => <<accessGrants[a].status, accessGrants'[a].status>>
                        \in {<<"None", "Requested">>, <<"Requested", "Granted">>,
                             <<"Granted", "Revoked">>}
               /\ accessGrants[a] # NoGrant => accessGrants'[a] # NoGrant
               /\ accessGrants'[a].status # "Expired"
       ]_vars

\* C21 witness: a grant has gone all the way to Revoked after its day of
\* granting, while a later one of the same pair is still Requested.
C21_Witness ==
    \E a \in 1 .. MaxGrants, b \in 1 .. MaxGrants :
        /\ accessGrants[a].status = "Revoked"
        /\ accessGrants[a].grantedAt < now
        /\ b > a /\ accessGrants[b].status = "Requested"
        /\ accessGrants[b].recordId = accessGrants[a].recordId
        /\ accessGrants[b].doctor = accessGrants[a].doctor

\* C22: when the grant the (r, d) pointer addresses is Revoked, or Granted and
\* past its expiresAt, requestAccess(r, reason) by d passes its requires if d is
\* a verified doctor, r is active and the reason has 1 to 200 bytes.  A step that
\* creates a grant for a pair whose pointer addressed an older grant takes a new
\* access id, leaves the row in status Requested, sets the pointer to the new
\* id, and leaves the older row as it was, still returned by getAccessGrant.
C22_RequestAfterLapseOrRevocation ==
    /\ [](\A r \in RecordIds, d \in Addr, reason \in ValidReasons \cup {Reason200} :
            LET old == recordDoctorAccess[r][d] IN
            ( /\ old # 0
              /\ \/ accessGrants[old].status = "Revoked"
                 \/ accessGrants[old].status = "Granted" /\ now > accessGrants[old].expiresAt
              /\ isVerifiedDoctor(d) /\ records[r].isActive )
            => requestAccessRequire(d, r, reason) = "ok")
    /\ [](\A a \in 1 .. accessCounter : getAccessGrantRequire(a) = "ok")
    /\ [][\A r \in RecordIds, d \in Addr :
            LET old == recordDoctorAccess[r][d] IN
            old # 0 /\ recordDoctorAccess'[r][d] # old
            => /\ recordDoctorAccess'[r][d] = accessCounter + 1
               /\ accessCounter' = accessCounter + 1
               /\ accessGrants[accessCounter + 1] = NoGrant
               /\ accessGrants'[accessCounter + 1].status = "Requested"
               /\ accessGrants'[accessCounter + 1].recordId = r
               /\ accessGrants'[accessCounter + 1].doctor = d
               /\ accessGrants'[old] = accessGrants[old]
               /\ getAccessGrantRequire(old)' = "ok"
       ]_vars

\* C22 witness: the pair's first grant was granted and has run past its expiry,
\* the doctor has requested again, and the pointer addresses the new row while
\* the old row still holds its digest and timestamps.
C22_Witness ==
    \E r \in RecordIds, d \in Addr :
        /\ recordDoctorAccess[r][d] = 2
        /\ accessGrants[2].status = "Requested"
        /\ accessGrants[1].recordId = r /\ accessGrants[1].doctor = d
        /\ accessGrants[1].status = "Granted"
        /\ now > accessGrants[1].expiresAt
        /\ accessGrants[1].encryptedKeyCID = "QmKey"
        /\ getAccessGrantRequire(1) = "ok"

----------------------------------------------------------------------------
(* Properties of the read views (under SpecViews) *)

ElementsOf(seq) == {seq[i] : i \in 1 .. Len(seq)}

Ascending(seq) == \A i \in 1 .. Len(seq), j \in 1 .. Len(seq) : i < j => seq[i] < seq[j]

\* C23: for every address p, getPendingRequests(p) is strictly ascending in the
\* access ids (creation order, no id twice) and holds exactly the ids of the
\* grants whose patient is p and whose status is Requested; a step that makes
\* the grant of an id in the result Granted takes the id out of the result, and
\* an assigned id that is not in the result is not in it after the step.
C23_PendingRequestsView ==
    /\ [](\A p \in Addr :
            /\ Ascending(getPendingRequests(p))
            /\ ElementsOf(getPendingRequests(p))
                 = {a \in 1 .. MaxGrants : /\ accessGrants[a].patient = p
                                           /\ accessGrants[a].status = "Requested"})
    /\ [][\A p \in Addr, a \in 1 .. MaxGrants :
            /\ ( /\ a \in ElementsOf(getPendingRequests(p))
                 /\ accessGrants'[a].status = "Granted" )
               => a \notin ElementsOf(getPendingRequests(p)')
            /\ a <= accessCounter /\ a \notin ElementsOf(getPendingRequests(p))
               => a \notin ElementsOf(getPendingRequests(p)')
       ]_vars

\* C23 witness: the request to patient "p" has been granted and has left their
\* view, while the later request to patient "adm" is in theirs.
C23_Witness ==
    /\ accessGrants[1].patient = "p" /\ accessGrants[1].status = "Granted"
    /\ accessGrants[2].patient = "adm" /\ accessGrants[2].status = "Requested"
    /\ patientPendingRequests["p"] = <<1>>
    /\ getPendingRequests("p") = <<>>
    /\ getPendingRequests("adm") = <<2>>

\* C24: for every address d, the record ids in getDoctorAccessibleRecords(d) are
\* exactly the records r with hasActiveAccess(r, d); a step that revokes the
\* grant the (r, d) pointer addresses, or moves the clock past its expiresAt,
\* takes r out of the view, and a step that grants it puts r into the view.
C24_AccessibleRecordsView ==
    /\ [](\A d \in Addr :
            ElementsOf(getDoctorAccessibleRecords(d))
              = {r \in RecordIds : hasActiveAccess(r, d)})
    /\ [][\A d \in Addr, r \in 1 .. MaxUploads :
            LET a == recordDoctorAccess[r][d] IN
            a # 0 /\ recordDoctorAccess'[r][d] = a
            => /\ ( /\ r \in ElementsOf(getDoctorAccessibleRecords(d))
                    /\ \/ accessGrants'[a].status = "Revoked"
                       \/ now' > accessGrants'[a].expiresAt )
                  => r \notin ElementsOf(getDoctorAccessibleRecords(d)')
               /\ ( /\ accessGrants[a].status = "Requested"
                    /\ accessGrants'[a].status = "Granted" )
                  => r \in ElementsOf(getDoctorAccessibleRecords(d)')
       ]_vars

\* C24 witness: the doctor's first grant on the record was revoked, the record
\* is twice in the doctor's index after a second grant, and the view shows it.
C24_Witness ==
    \E r \in 1 .. MaxUploads :
        /\ accessGrants[1].status = "Revoked" /\ accessGrants[1].recordId = r
        /\ accessGrants[2].status = "Granted" /\ accessGrants[2].recordId = r
        /\ doctorAccessibleRecords["d"] = <<r, r>>
        /\ hasActiveAccess(r, "d")
        /\ r \in ElementsOf(getDoctorAccessibleRecords("d"))

----------------------------------------------------------------------------
(* Properties of the record index (under SpecIndex) *)

\* C25: getTotalRecords is the number of record rows written so far; getRecord
\* passes exactly for the ids 1 .. getTotalRecords and the row of such an id
\* stores that id; getRecord(0) reverts.  A step that writes a new row writes
\* the row of id getTotalRecords + 1 and advances the counter to it, and a row
\* once written keeps its id.
C25_RecordIdsSequential ==
    /\ [](/\ getTotalRecords = Cardinality({r \in RecordIds : records[r] # NoRecord})
          /\ \A r \in RecordIds :
               /\ getRecordRequire(r) = "ok" <=> (1 <= r /\ r <= getTotalRecords)
               /\ getRecordRequire(r) = "ok" => records[r].recordId = r
          /\ getRecordRequire(0) = "Record does not exist"
          /\ records[0] = NoRecord)
    /\ [][/\ getTotalRecords' >= getTotalRecords
          /\ \A r \in RecordIds :
               /\ records[r] = NoRecord /\ records'[r] # NoRecord
                  => /\ r = getTotalRecords + 1
                     /\ getTotalRecords' = r
               /\ records[r] # NoRecord => records'[r].recordId = records[r].recordId
       ]_vars

\* C25 witness: two patients have uploaded one record each, the first of the
\* two records is deactivated, and both are returned by getRecord.
C25_Witness ==
    /\ getTotalRecords = 2
    /\ records[1].owner # records[2].owner
    /\ ~records[1].isActive /\ records[2].isActive
    /\ getRecordRequire(1) = "ok" /\ getRecordRequire(2) = "ok"

\* C26: for every registered patient P, getPatientRecordIds(P) is strictly
\* ascending and holds exactly the ids of the records whose owner is P, and
\* getActivePatientRecordIds(P) is strictly ascending and holds exactly those of
\* them that are active, so it is the order-preserving sub-list; when record 1
\* is P's first upload and is active the active list starts with 1, and it is
\* <<1>> when P has no other active record.  Both views revert for an address
\* that is not a registered patient.  Over a step that writes nothing to the
\* ledger (the clock alone moves) both views return what they returned before.
C26_PatientRecordViews ==
    /\ [](\A P \in Addr :
        /\ getPatientRecordIdsRequire(P) = "ok" <=> isPatient(P)
        /\ isPatient(P)
           => /\ Ascending(getPatientRecordIds(P))
              /\ ElementsOf(getPatientRecordIds(P))
                   = {r \in 1 .. MaxUploads : records[r].owner = P}
              /\ Ascending(getActivePatientRecordIds(P))
              /\ ElementsOf(getActivePatientRecordIds(P))
                   = {r \in 1 .. MaxUploads : records[r].owner = P /\ records[r].isActive}
              /\ ( records[1].owner = P /\ records[1].isActive
                   => /\ getActivePatientRecordIds(P)[1] = 1
                      /\ (\A r \in 2 .. MaxUploads : ~(records[r].owner = P /\ records[r].isActive))
                         => getActivePatientRecordIds(P) = <<1>> ))
    /\ [][ledger' = ledger
          => \A P \in Addr :
               /\ getPatientRecordIdsRequire(P)' = getPatientRecordIdsRequire(P)
               /\ getPatientRecordIds(P)' = getPatientRecordIds(P)
               /\ getActivePatientRecordIds(P)' = getActivePatientRecordIds(P)
       ]_vars

\* C26 witness: a patient owns records 1 and 2 and has deactivated the first.
C26_Witness ==
    \E P \in Addr :
        /\ isPatient(P)
        /\ getPatientRecordIds(P) = <<1, 2>>
        /\ getActivePatientRecordIds(P) = <<2>>

----------------------------------------------------------------------------
(* What active access depends on (under Spec) *)

\* C27: whenever hasActiveAccess(r, d) is true or getEncryptedKey(r) passes for
\* the caller d, d passes isVerifiedDoctor: a suspended or rejected doctor has
\* no active access to any record.
C27_ActiveAccessImpliesVerified ==
    \A r \in RecordIds, d \in Addr :
        hasActiveAccess(r, d) \/ getEncryptedKeyRequire(d, r) = "ok"
        => isVerifiedDoctor(d)

\* C28: whenever hasActiveAccess(r, d) is true the record r is active: no grant
\* is in force on a record that was deactivated before or after the granting.
C28_ActiveAccessImpliesRecordActive ==
    \A r \in RecordIds, d \in Addr :
        hasActiveAccess(r, d) => records[r].isActive

----------------------------------------------------------------------------
(* Properties of the client's key handling (under SpecClient) *)

\* the artifacts of the content store a digest refers to
ArtifactsAt(cid) == {art \in contentStore : Cid(art) = cid}

\* the symmetric keys anybody can read out of an artifact without a private
\* key: the key of a key document whose key field is the exported raw key
RawKeysIn(art) ==
    IF art.type = "encryption-key" /\ art.key[1] = "base64"
    THEN {importKey(art.key)}
    ELSE {}

\* the key document holds a symmetric key wrapped under the public key of a
WrappedFor(art, a) ==
    /\ art.type = "encryption-key"
    /\ art.key[1] = "RSA-OAEP"
    /\ art.key[2] = PublicKeyOf(a)

\* C29: the key digest of every grant the client has granted refers to an
\* artifact of the content store in which a symmetric key is wrapped under the
\* public key of the grant's doctor; it is not the encryptedKeyCID of the
\* grant's record, and no two granted grants hold the same digest.
C29_GrantKeyWrappedForDoctor ==
    \A a \in 1 .. MaxGrants :
        accessGrants[a].status = "Granted"
        => /\ \E art \in ArtifactsAt(accessGrants[a].encryptedKeyCID) :
                  WrappedFor(art, accessGrants[a].doctor)
           /\ accessGrants[a].encryptedKeyCID
                # records[accessGrants[a].recordId].encryptedKeyCID
           /\ \A b \in 1 .. MaxGrants :
                  b # a /\ accessGrants[b].status = "Granted"
                  => accessGrants[b].encryptedKeyCID # accessGrants[a].encryptedKeyCID

\* C30: no artifact of the content store lets the symmetric key of a record be
\* read without a private key, and the encryptedKeyCID of every record on the
\* ledger refers to an artifact in which the key is wrapped under the public
\* key of the record's owner.
C30_NoRawKeyUploaded ==
    /\ \A art \in contentStore : RawKeysIn(art) = {}
    /\ \A r \in 1 .. MaxUploads :
           records[r].recordId # 0
           => \E art \in ArtifactsAt(records[r].encryptedKeyCID) :
                  WrappedFor(art, records[r].owner)

\* what the doctor d recovers of record r by the path of C31: the digest
\* getEncryptedKey returns, the artifact behind it, decryptKeyFromSender with
\* d's private key, the payload behind the record's dataCID, decryptData
RecoveredPlaintext(d, r) ==
    LET keyDocs  == ArtifactsAt(getEncryptedKey(d, r))
        payloads == ArtifactsAt(records[r].dataCID)
    IN  IF keyDocs = {} \/ payloads = {} THEN "NotFound"
        ELSE LET keyDoc  == CHOOSE art \in keyDocs : TRUE
                 payload == CHOOSE art \in payloads : TRUE
                 symmetricKey == decryptKeyFromSender(keyDoc.key, PrivateKeyOf(d))
             IN  decryptData(payload.ciphertext, symmetricKey)

\* C31: decryptData with the same key returns what encryptData was given, and
\* decryptKeyFromSender with the recipient's private key returns the key
\* encryptKeyForRecipient was given; and for every record r and doctor d with
\* hasActiveAccess(r, d), the plaintext d recovers from the grant's key digest
\* and the record's payload is an uploaded file whose hash is the record's
\* recordHash.
C31_RoundTripForGrantedDoctor ==
    /\ \A file \in Files, key \in SymKeys :
           decryptData(encryptData(file, key), key) = file
    /\ \A key \in SymKeys, a \in Addr :
           decryptKeyFromSender(encryptKeyForRecipient(key, PublicKeyOf(a)),
                                PrivateKeyOf(a)) = key
    /\ \A r \in 1 .. MaxUploads, d \in Addr :
           hasActiveAccess(r, d)
           => /\ RecoveredPlaintext(d, r) \in Files
              /\ "0x" \o calculateFileHash(RecoveredPlaintext(d, r)) = records[r].recordHash

----------------------------------------------------------------------------
(* Properties of the indexes and of the grant rows (under Spec) *)

IsPrefixOf(seq, longer) ==
    /\ Len(seq) <= Len(longer)
    /\ SubSeq(longer, 1, Len(seq)) = seq

\* a step leaves every index as it was or appends one entry to it
IndexesAppendOnly ==
    \A a \in Addr :
        /\ IsPrefixOf(patientRecords[a], patientRecords'[a])
        /\ Len(patientRecords'[a]) <= Len(patientRecords[a]) + 1
        /\ IsPrefixOf(patientPendingRequests[a], patientPendingRequests'[a])
        /\ Len(patientPendingRequests'[a]) <= Len(patientPendingRequests[a]) + 1
        /\ IsPrefixOf(doctorAccessibleRecords[a], doctorAccessibleRecords'[a])
        /\ Len(doctorAccessibleRecords'[a]) <= Len(doctorAccessibleRecords[a]) + 1

\* a step that extends the record index of a or the request index of a creates
\* the record, or the grant, the new entry names
RecordAndRequestIndexByCreator ==
    \A a \in Addr :
        /\ patientRecords'[a] # patientRecords[a]
           => LET r == patientRecords'[a][Len(patientRecords'[a])] IN
              /\ r = recordCounter + 1 /\ recordCounter' = r
              /\ records[r] = NoRecord /\ records'[r].owner = a
        /\ patientPendingRequests'[a] # patientPendingRequests[a]
           => LET g == patientPendingRequests'[a][Len(patientPendingRequests'[a])] IN
              /\ g = accessCounter + 1 /\ accessCounter' = g
              /\ accessGrants[g] = NoGrant /\ accessGrants'[g].patient = a

\* C32 as stated: the three indexes are append-only, and a step that extends an
\* index creates the entity the new entry refers to; for the doctor's index
\* that is the record the entry names or a grant row for that record.
C32_IndexesAppendOnlyByCreator ==
    [][/\ IndexesAppendOnly
       /\ RecordAndRequestIndexByCreator
       /\ \A d \in Addr :
            doctorAccessibleRecords'[d] # doctorAccessibleRecords[d]
            => LET r == doctorAccessibleRecords'[d][Len(doctorAccessibleRecords'[d])] IN
               \/ records[r] = NoRecord /\ records'[r] # NoRecord
               \/ \E g \in 1 .. MaxGrants :
                      /\ accessGrants[g] = NoGrant
                      /\ accessGrants'[g].recordId = r
      ]_vars

\* C32 amended: the three indexes are append-only; the record index and the
\* request index are extended only by the step that creates the record or the
\* grant the new entry names; the doctor's index is extended only by the step
\* that turns a Requested grant of that doctor into Granted, with the record id
\* of that grant, and that step creates no record and no grant row.
C32_IndexesAppendOnly ==
    [][/\ IndexesAppendOnly
       /\ RecordAndRequestIndexByCreator
       /\ \A d \in Addr :
            doctorAccessibleRecords'[d] # doctorAccessibleRecords[d]
            => LET r == doctorAccessibleRecords'[d][Len(doctorAccessibleRecords'[d])] IN
               /\ \E g \in 1 .. MaxGrants :
                      /\ accessGrants[g].status = "Requested"
                      /\ accessGrants'[g].status = "Granted"
                      /\ accessGrants[g].doctor = d
                      /\ accessGrants[g].recordId = r
               /\ recordCounter' = recordCounter
               /\ accessCounter' = accessCounter
      ]_vars

\* C32 witness: each index has grown: the patient owns a record, has received
\* two requests, and the doctor's index names the record twice after two grants.
C32_Witness ==
    /\ patientRecords["p"] = <<1>>
    /\ patientPendingRequests["p"] = <<1, 2>>
    /\ doctorAccessibleRecords["d"] = <<1, 1>>
    /\ accessGrants[1].status = "Revoked"

----------------------------------------------------------------------------
(* Properties of the events (under SpecEvents) *)

Event(name, id) == [name |-> name, id |-> id]

NumberOf(name) == Cardinality({i \in 1 .. Len(eventLog) : eventLog[i].name = name})

LedgerEvents ==
    {"RecordAdded", "RecordDeactivated", "AccessRequested", "AccessGranted",
     "AccessRevoked"}

\* C33: a step that adds a record, deactivates a record, creates a grant, makes
\* a grant Granted or makes a grant Revoked appends to the log exactly the one
\* event RecordAdded, RecordDeactivated, AccessRequested, AccessGranted or
\* AccessRevoked with the id of that record or grant; a step appends at most one
\* event, at the end, and an event of these five types only with its mutation;
\* a step whose receipt is "reverted" appends nothing.  So the log holds as
\* many events of each type as there are mutations of that type in the ledger.
C33_OneEventPerMutation ==
    /\ [](/\ NumberOf("RecordAdded") = recordCounter
          /\ NumberOf("RecordDeactivated")
               = Cardinality({r \in 1 .. recordCounter : ~records[r].isActive})
          /\ NumberOf("AccessRequested") = accessCounter
          /\ NumberOf("AccessGranted")
               = Cardinality({a \in 1 .. accessCounter :
                                 accessGrants[a].status \in {"Granted", "Revoked"}})
          /\ NumberOf("AccessRevoked")
               = Cardinality({a \in 1 .. accessCounter : accessGrants[a].status = "Revoked"}))
    /\ [][/\ receipt' = "reverted" => eventLog' = eventLog
          /\ recordCounter' # recordCounter
             => eventLog' = Append(eventLog, Event("RecordAdded", recordCounter'))
          /\ \A r \in 1 .. MaxUploads :
               records[r].isActive /\ ~records'[r].isActive
               => eventLog' = Append(eventLog, Event("RecordDeactivated", r))
          /\ accessCounter' # accessCounter
             => eventLog' = Append(eventLog, Event("AccessRequested", accessCounter'))
          /\ \A a \in 1 .. MaxGrants :
               /\ accessGrants[a].status = "Requested" /\ accessGrants'[a].status = "Granted"
                  => eventLog' = Append(eventLog, Event("AccessGranted", a))
               /\ accessGrants[a].status = "Granted" /\ accessGrants'[a].status = "Revoked"
                  => eventLog' = Append(eventLog, Event("AccessRevoked", a))
          /\ eventLog' # eventLog
             => /\ Len(eventLog') = Len(eventLog) + 1
                /\ SubSeq(eventLog', 1, Len(eventLog)) = eventLog
                /\ eventLog'[Len(eventLog')].name \in LedgerEvents
                   => <<recordVars, accessVars>>' # <<recordVars, accessVars>>
       ]_vars

\* C33 witness: the log shows the request, the granting and the revocation of
\* grant 1 in this order after the upload of record 1, and the latest call was
\* rejected.
C33_Witness ==
    /\ receipt = "reverted"
    /\ \E i, j, k, l \in 1 .. Len(eventLog) :
           /\ i < j /\ j < k /\ k < l
           /\ eventLog[i] = Event("RecordAdded", 1)
           /\ eventLog[j] = Event("AccessRequested", 1)
           /\ eventLog[k] = Event("AccessGranted", 1)
           /\ eventLog[l] = Event("AccessRevoked", 1)

----------------------------------------------------------------------------
(* Properties of the read operations (under Spec and SpecViews) *)

\* C34: a read operation of the access engine returns a non-empty
\* encryptedKeyCID of a grant only to the doctor of that grant and only while
\* the grant is Granted and unexpired: this holds of getEncryptedKey and of
\* getAccessGrant (the getter of the public mapping returns the same row).
C34_KeyDigestOnlyToActiveGrantee ==
    \A c \in Addr :
        /\ \A r \in 1 .. MaxUploads :
             getEncryptedKeyRequire(c, r) = "ok" /\ getEncryptedKey(c, r) # ""
             => LET access == accessGrants[recordDoctorAccess[r][c]]
                IN  /\ access.doctor = c
                    /\ access.status = "Granted"
                    /\ now <= access.expiresAt
        /\ \A a \in 1 .. MaxGrants :
             getAccessGrantRequire(a) = "ok" /\ getAccessGrant(c, a).encryptedKeyCID # ""
             => /\ accessGrants[a].doctor = c
                /\ accessGrants[a].status = "Granted"
                /\ now <= accessGrants[a].expiresAt

NoDuplicates(seq) ==
    \A i, j \in 1 .. Len(seq) : seq[i] = seq[j] => i = j

\* C35: the list that getDoctorAccessibleRecords returns for a doctor holds
\* each record id at most once.
C35_AccessibleRecordsWithoutDuplicates ==
    \A d \in Addr : NoDuplicates(getDoctorAccessibleRecords(d))

----------------------------------------------------------------------------
(* Properties of the grant rows over time (under Spec) *)

\* C36: a grant in status Requested has no key digest and grantedAt =
\* expiresAt = 0; a grant in status Granted or Revoked has a key digest and
\* expiresAt - grantedAt is a whole number of days from 1 to 365; the patient of
\* a grant is the owner of its record; and no step changes the recordId,
\* patient, doctor or requestReason of a grant that exists.
C36_GrantFieldsConsistent ==
    /\ [](\A a \in 1 .. MaxGrants :
            LET g == accessGrants[a] IN
            IF a > accessCounter THEN g = NoGrant
            ELSE /\ g.status \in {"Requested", "Granted", "Revoked"}
                 /\ g.recordId \in 1 .. recordCounter
                 /\ g.patient = records[g.recordId].owner
                 /\ g.status = "Requested"
                    => g.encryptedKeyCID = "" /\ g.grantedAt = 0 /\ g.expiresAt = 0
                 /\ g.status \in {"Granted", "Revoked"}
                    => /\ g.encryptedKeyCID # ""
                       /\ \E days \in 1 .. MaxDuration :
                              g.expiresAt - g.grantedAt = days * DAY)
    /\ [][\A a \in 1 .. MaxGrants :
            accessGrants[a].recordId # 0
            => /\ accessGrants'[a].recordId = accessGrants[a].recordId
               /\ accessGrants'[a].patient = accessGrants[a].patient
               /\ accessGrants'[a].doctor = accessGrants[a].doctor
               /\ accessGrants'[a].requestReason = accessGrants[a].requestReason
       ]_vars

\* C36 witness: one grant has been revoked and a later one is still Requested.
C36_Witness ==
    /\ accessCounter = 2
    /\ accessGrants[1].status = "Revoked"
    /\ accessGrants[2].status = "Requested"

ActiveAfterStep(r, d) ==
    LET accessId == recordDoctorAccess'[r][d] IN
    IF accessId = 0 THEN FALSE
    ELSE /\ accessGrants'[accessId].status = "Granted"
         /\ now' <= accessGrants'[accessId].expiresAt

\* C37: no step changes the grantedAt or expiresAt of a grant in status
\* Granted, and a doctor has active access through a grant no later than 365
\* days after its grantedAt; a grant in status Granted whose expiresAt has
\* passed cannot be revoked by anyone and is still Granted after every step; and
\* a pair without active access gets active access only by the step in which
\* the patient grants the pair's latest request, a grant in status Requested.
C37_AccessTimeBounded ==
    /\ [](\A r \in 1 .. MaxUploads, d \in Addr :
            hasActiveAccess(r, d)
            => now <= accessGrants[recordDoctorAccess[r][d]].grantedAt + MaxDuration * DAY)
    /\ [](\A a \in 1 .. MaxGrants, c \in Addr :
            accessGrants[a].status = "Granted" /\ now > accessGrants[a].expiresAt
            => revokeAccessRequire(c, a) = "Access already expired"
                 \/ revokeAccessRequire(c, a) = "Only patient can revoke")
    /\ [][/\ \A a \in 1 .. MaxGrants :
               accessGrants[a].status = "Granted"
               => /\ accessGrants'[a].grantedAt = accessGrants[a].grantedAt
                  /\ accessGrants'[a].expiresAt = accessGrants[a].expiresAt
                  /\ now > accessGrants[a].expiresAt
                     => accessGrants'[a].status = "Granted"
          /\ \A r \in 1 .. MaxUploads, d \in Addr :
               ~hasActiveAccess(r, d) /\ ActiveAfterStep(r, d)
               => LET a == recordDoctorAccess[r][d] IN
                  /\ recordDoctorAccess'[r][d] = a
                  /\ accessGrants[a].status = "Requested"
                  /\ accessGrants'[a].grantedAt = now
                  /\ \E key \in KeyCIDs, days \in Durations :
                         grantAccess(accessGrants[a].patient, a, key, days)
       ]_vars

\* C37 witness: the first grant of the pair has expired without being revoked
\* and is still Granted, and the doctor has active access again through a
\* second request that the patient granted.
C37_Witness ==
    /\ accessCounter = 2
    /\ accessGrants[1].status = "Granted" /\ now > accessGrants[1].expiresAt
    /\ accessGrants[2].recordId = accessGrants[1].recordId
    /\ accessGrants[2].doctor = accessGrants[1].doctor
    /\ accessGrants[2].status = "Granted" /\ now <= accessGrants[2].expiresAt
    /\ hasActiveAccess(accessGrants[2].recordId, accessGrants[2].doctor)

GrantsOfPair(r, d) ==
    {a \in 1 .. accessCounter :
        accessGrants[a].recordId = r /\ accessGrants[a].doctor = d}

Largest(S) == CHOOSE a \in S : \A b \in S : b <= a

\* C38: the grants that exist are those with the ids 1 .. accessCounter, a step
\* that creates a grant gives it the id accessCounter + 1 and no step lowers
\* the counter or removes a grant; the pointer of a (record, doctor) pair is 0
\* exactly when no grant was created for the pair, and otherwise it is the
\* largest id among the pair's grants.
C38_AccessIdsAndPointers ==
    /\ [](/\ \A a \in 1 .. MaxGrants :
               /\ a <= accessCounter <=> accessGrants[a].recordId # 0
          /\ accessGrants[0] = NoGrant
          /\ \A r \in 1 .. MaxUploads, d \in Addr :
               /\ recordDoctorAccess[r][d] = 0 <=> GrantsOfPair(r, d) = {}
               /\ GrantsOfPair(r, d) # {}
                  => recordDoctorAccess[r][d] = Largest(GrantsOfPair(r, d)))
    /\ [][/\ accessCounter' \in {accessCounter, accessCounter + 1}
          /\ accessCounter' = accessCounter + 1
             => /\ accessGrants[accessCounter'] = NoGrant
                /\ accessGrants'[accessCounter'].recordId # 0
          /\ \A a \in 1 .. MaxGrants :
               accessGrants[a].recordId # 0 => accessGrants'[a].recordId # 0
       ]_vars

\* C38 witness: two grants exist for the same pair and the pair's pointer is
\* the id of the second.
C38_Witness ==
    /\ accessCounter = 2
    /\ accessGrants[1].recordId = 1 /\ accessGrants[2].recordId = 1
    /\ accessGrants[1].doctor = "d" /\ accessGrants[2].doctor = "d"
    /\ recordDoctorAccess[1]["d"] = 2

----------------------------------------------------------------------------
(* Properties of the doctor's status over time (under SpecRegistry) *)

\* C39: no step takes a doctor's status from another status to Pending, and no
\* step takes it from Rejected or Suspended to Verified (or anywhere but
\* Rejected or Suspended); rejectDoctor and suspendDoctor by the administrator
\* pass their requires on a registered doctor in every status, and a step that
\* makes a doctor Rejected or Suspended changes nothing of the doctor's row
\* but the status.
C39_DoctorStatusNeverRestored ==
    /\ [](\A d \in Addr :
            doctors[d].isRegistered
            => /\ doctors[d].status \in {"Pending", "Verified", "Rejected", "Suspended"}
               /\ rejectDoctorRequire(admin, d) = "ok"
               /\ suspendDoctorRequire(admin, d) = "ok"
               /\ doctors[d].status \in {"Rejected", "Suspended"}
                  => \A c \in Addr : verifyDoctorRequire(c, d) # "ok")
    /\ [][\A d \in Addr :
            /\ doctors[d].status # "Pending" => doctors'[d].status # "Pending"
            /\ doctors[d].status \in {"Rejected", "Suspended"}
               => doctors'[d].status \in {"Rejected", "Suspended"}
            /\ ( /\ doctors'[d].status \in {"Rejected", "Suspended"}
                 /\ doctors'[d].status # doctors[d].status )
               => /\ doctors' = [doctors EXCEPT ![d].status = doctors'[d].status]
                  /\ doctors'[d].verifiedAt = doctors[d].verifiedAt
                  /\ doctors'[d].profileCID = doctors[d].profileCID
                  /\ doctors'[d].licenseNumber = doctors[d].licenseNumber
       ]_vars

\* C39 witness: a doctor who was verified is Suspended at a later time, with
\* the time of verification and an updated profile still in its row, and the
\* administrator can reject it but not verify it.
C39_Witness ==
    /\ doctors["d"].status = "Suspended"
    /\ doctors["d"].verifiedAt # 0 /\ now > doctors["d"].verifiedAt
    /\ doctors["d"].profileCID = "QmProfile2"
    /\ rejectDoctorRequire(admin, "d") = "ok"
    /\ verifyDoctorRequire(admin, "d") = "Doctor not pending"

----------------------------------------------------------------------------
(* The authentication server: the nonce route and the verify route share   *)
(* the map nonceStore.  Time is counted in minutes.  A request that is     *)
(* answered with an error changes nothing, so it is no step.               *)

Wallets == {"0xAB12", "0xCD34"}        \* the wallets, by checksummed address
Roles   == {"patient", "doctor"}
NonceIds == 1 .. MaxNonces

(* the text the wallet is asked to sign *)
Message(nonce, role) ==
    <<"Sign this message to authenticate with AI Decentralized HRS.", nonce, role>>

(* a wallet's signature of a message *)
signMessage(wallet, message) == [signer |-> wallet, message |-> message]

(* ethers.verifyMessage: the address whose key signed the message; for a   *)
(* signature of another message it recovers an address that is nobody's    *)
verifyMessage(message, signature) ==
    IF signature.message = message THEN signature.signer ELSE "0xFFFF"

(* randomBytes(32): a value that was never handed out before *)
randomBytes == Len(issued) + 1

(* POST of the nonce route *)
POST_nonce(address) ==
    /\ address # ""
    /\ Len(issued) < MaxNonces
    /\ LET nonce == randomBytes IN
       /\ nonceStore' = [nonceStore EXCEPT ![toLowerCase(address)] = nonce]
       /\ timers' = timers \cup {[key |-> toLowerCase(address),
                                  fireAt |-> serverTime + NonceLifetime,
                                  id |-> nonce]}
       /\ issued' = Append(issued, [address |-> toLowerCase(address), at |-> serverTime])
    /\ UNCHANGED <<serverTime, consumed>>
    /\ UNCHANGED <<now, ledger, receipt, contentStore, subscribed, eventLog>>

(* the callback of setTimeout in the nonce route *)
cleanup(timer) ==
    /\ timer \in timers
    /\ serverTime >= timer.fireAt
    /\ nonceStore' = [nonceStore EXCEPT ![timer.key] = NoNonce]
    /\ timers' = timers \ {timer}
    /\ UNCHANGED <<serverTime, issued, consumed>>
    /\ UNCHANGED <<now, ledger, receipt, contentStore, subscribed, eventLog>>

(* the response of the verify route: "ok" or the error *)
verifyResponse(address, signature, role) ==
    IF address = "" \/ role = "" THEN "Address, signature, and role required"
    ELSE IF role \notin Roles THEN "Invalid role. Must be patient or doctor"
    ELSE IF nonceStore[toLowerCase(address)] = NoNonce
         THEN "Nonce not found. Please request a new nonce."
    ELSE IF toLowerCase(verifyMessage(Message(nonceStore[toLowerCase(address)], role),
                                      signature))
              # toLowerCase(address)
         THEN "Invalid signature"
    ELSE "ok"

(* POST of the verify route *)
POST_verify(address, signature, role) ==
    /\ verifyResponse(address, signature, role) = "ok"
    /\ consumed' = consumed \cup {nonceStore[toLowerCase(address)]}
    /\ nonceStore' = [nonceStore EXCEPT ![toLowerCase(address)] = NoNonce]
    /\ UNCHANGED <<serverTime, timers, issued>>
    /\ UNCHANGED <<now, ledger, receipt, contentStore, subscribed, eventLog>>

(* a minute passes; the callbacks that are due have run *)
ServerTick ==
    /\ serverTime < MaxMinutes
    /\ \A timer \in timers : serverTime < timer.fireAt
    /\ serverTime' = serverTime + 1
    /\ UNCHANGED <<nonceStore, timers, issued, consumed>>
    /\ UNCHANGED <<now, ledger, receipt, contentStore, subscribed, eventLog>>

(* Wallets ask for nonces, in either spelling of their address, and sign   *)
(* the message of any nonce handed out so far.                             *)
NextNonce ==
    \/ ServerTick
    \/ \E address \in AddressInputs : POST_nonce(address)
    \/ \E timer \in timers : cleanup(timer)
    \/ \E address \in AddressInputs, w \in Wallets, n \in NonceIds, role \in Roles :
           POST_verify(address, signMessage(w, Message(n, role)), role)

SpecNonce == Init /\ [][NextNonce]_vars

----------------------------------------------------------------------------
(* Properties of the nonces (under SpecNonce) *)

(* the nonce handed out last for the wallet, NoNonce if none was *)
LatestNonce(wallet) ==
    LET mine == {n \in 1 .. Len(issued) : issued[n].address = toLowerCase(wallet)}
    IN  IF mine = {} THEN NoNonce ELSE CHOOSE n \in mine : \A m \in mine : m <= n

Accepted(wallet, nonce) ==
    \E role \in Roles :
        verifyResponse(wallet, signMessage(wallet, Message(nonce, role)), role) = "ok"

\* C40: the nonce handed out last for a wallet, unless a verification has
\* consumed it, is accepted by the verify route at every time less than 5
\* minutes after it was handed out; no nonce is accepted later than 5 minutes
\* after it was handed out; and a consumed nonce is not accepted again.
C40_NonceLivesFiveMinutes ==
    \A wallet \in Wallets :
        /\ LET nonce == LatestNonce(wallet) IN
           ( /\ nonce # NoNonce
             /\ nonce \notin consumed
             /\ serverTime < issued[nonce].at + NonceLifetime )
           => Accepted(wallet, nonce)
        /\ \A nonce \in 1 .. Len(issued) :
             /\ serverTime > issued[nonce].at + NonceLifetime => ~Accepted(wallet, nonce)
             /\ nonce \in consumed => ~Accepted(wallet, nonce)

====
